---- MODULE Spec2Model ----
(***************************************************************************)
(* A state-machine model of the prototype-comments overlay: the comment    *)
(* list owned by CommentManager, its storage adapters (in-memory and       *)
(* localStorage/JSON), the overlay with one pin per comment, the create    *)
(* and edit editors, pin dragging, and the viewport events that re-run     *)
(* the position computation.                                               *)
(*                                                                         *)
(* Numbers of the program are JavaScript doubles; the model uses exact     *)
(* rationals <<n, d>> (d > 0, lowest terms), which agree with the doubles  *)
(* on the finite values the model draws.  Optional fields (nx, ny, anchor, *)
(* a supplied id or timestamp) are sets: {} is undefined, {v} is v.        *)
(***************************************************************************)
EXTENDS Integers, Sequences, FiniteSets, TLC

VARIABLES
    browser,        \* isBrowser(): window and document exist
    lsBackend,      \* window.localStorage: "ok", "absent", "throws" or "inert"
    lsValue,        \* what localStorage holds under 'prototype-comments'
    lsQuota,        \* how many stringified comments localStorage has room for
    hostStorage,    \* options.storage the host page passes to enable()
    isEnabled,      \* CommentManager.isEnabled
    storageKind,    \* CommentManager.storageKind
    memStore,       \* inMemory of the manager's memory adapter
    comments,       \* CommentManager.comments
    overlay,        \* CommentManager.overlayElement is set (and in the page)
    pins,           \* the bubbles of the overlay, in DOM order
    editor,         \* CommentManager.editorElement and what its closures hold
    hoverHandler,   \* CommentManager.hoverHandler is registered
    viewportHandler,\* CommentManager.viewportHandler is registered
    keyHandler,     \* CommentManager.keyHandler is registered
    scroll,         \* <<window.scrollX, window.scrollY>>
    viewport,       \* <<window.innerWidth, window.innerHeight>>
    boxRect,        \* bounding box of the page element #box, or NoRect
    drag,           \* the drag closure of the bubble being dragged
    writeFailed,    \* history: a save was swallowed since the last enable()
    adapter,        \* a storage adapter used on its own (SpecStorage)
    visible,        \* CommentManager.visible
    overlayShown,   \* the overlay's style.display is '' (not 'none')
    mirror,         \* an external control's copy of the visibility, set from events
    broadcast,      \* the visibility events the latest handler dispatched
    hover,          \* per bubble: its presentation state, listeners and timers
    probe           \* a document, one of its elements, its path and what the path finds

vars == <<browser, lsBackend, lsValue, lsQuota, hostStorage, probe, isEnabled,
          storageKind, memStore,
          comments, overlay, pins, editor, hoverHandler, viewportHandler,
          keyHandler, scroll, viewport, boxRect, drag, writeFailed, adapter,
          visible, overlayShown, mirror, broadcast, hover>>

---------------------------------------------------------------------------
(* Bounds of the model *)

\* longest comment list the model builds
MaxComments == 2

---------------------------------------------------------------------------
(* Exact arithmetic on rationals <<n, d>> *)

Abs(n) == IF n < 0 THEN -n ELSE n

RECURSIVE GCD(_, _)
GCD(a, b) == IF b = 0 THEN a ELSE GCD(b, a % b)

Rat(n, d) ==
    LET s == IF d < 0 THEN -1 ELSE 1
        g == GCD(Abs(n), Abs(d))
    IN  <<(s * n) \div g, (s * d) \div g>>

RInt(n) == <<n, 1>>
RAdd(p, q) == Rat(p[1] * q[2] + q[1] * p[2], p[2] * q[2])
RSub(p, q) == Rat(p[1] * q[2] - q[1] * p[2], p[2] * q[2])
RMul(p, q) == Rat(p[1] * q[1], p[2] * q[2])
RDiv(p, q) == Rat(p[1] * q[2], p[2] * q[1])
RLe(p, q) == p[1] * q[2] <= q[1] * p[2]
RLt(p, q) == p[1] * q[2] < q[1] * p[2]
\* Math.max / Math.min
RMax(p, q) == IF RLe(p, q) THEN q ELSE p
RMin(p, q) == IF RLe(p, q) THEN p ELSE q

---------------------------------------------------------------------------
(* Strings as sequences of characters; String.prototype.trim *)

IsSpace(ch) == ch = " "

RECURSIVE TrimStart(_)
TrimStart(s) ==
    IF s = <<>> THEN s
    ELSE IF IsSpace(Head(s)) THEN TrimStart(Tail(s)) ELSE s

RECURSIVE TrimEnd(_)
TrimEnd(s) ==
    IF s = <<>> THEN s
    ELSE IF IsSpace(s[Len(s)]) THEN TrimEnd(SubSeq(s, 1, Len(s) - 1)) ELSE s

\* seeded fault: the submitted text is not trimmed
TrimNot(s) == s

Trim(s) == TrimEnd(TrimStart(s))

---------------------------------------------------------------------------
(* Data model: CommentPoint *)

Ids == 1 .. MaxComments

OptKeys == {"nx", "ny", "anchor"}
AllKeys == {"id", "text", "x", "y", "timestamp"} \cup OptKeys

\* property read c.k of a JavaScript object: an absent key reads as undefined
Get(c, k) == IF k \in DOMAIN c THEN c[k] ELSE {}

\* equality of two comments field by field (an absent optional key and an
\* undefined one read the same)
SameComment(a, b) == \A k \in AllKeys : Get(a, k) = Get(b, k)

SameList(l1, l2) ==
    /\ Len(l1) = Len(l2)
    /\ \A i \in 1 .. Len(l1) : SameComment(l1[i], l2[i])

\* object spread { ...c, ...upd }
Spread(c, upd) ==
    [k \in DOMAIN c \cup DOMAIN upd |-> IF k \in DOMAIN upd THEN upd[k] ELSE c[k]]

IdsOf(cs) == {cs[i].id : i \in 1 .. Len(cs)}

\* Array.prototype.findIndex((c) => c.id === id); 0 stands for -1
FindIndex(cs, id) ==
    IF \E i \in 1 .. Len(cs) : cs[i].id = id
    THEN CHOOSE i \in 1 .. Len(cs) :
            /\ cs[i].id = id
            /\ \A j \in 1 .. i - 1 : cs[j].id # id
    ELSE 0

\* seeded fault: the filter hands back the kept comments last first
FilterOutReversed(cs, id) ==
    LET kept == SelectSeq(cs, LAMBDA c : c.id # id)
    IN  [i \in DOMAIN kept |-> kept[Len(kept) + 1 - i]]

\* Array.prototype.filter((c) => c.id !== id)
FilterOut(cs, id) == SelectSeq(cs, LAMBDA c : c.id # id)

---------------------------------------------------------------------------
(* JSON.stringify / JSON.parse of a comment list, as localStorage holds it *)

\* seeded fault: the serialisation leaves the anchor out
StringifyObjFlat(c) ==
    [k \in {f \in DOMAIN c : f \notin OptKeys \/ (c[f] # {} /\ f # "anchor")} |-> c[k]]

\* JSON.stringify of one object leaves out the keys whose value is undefined
StringifyObj(c) ==
    [k \in {f \in DOMAIN c : f \notin OptKeys \/ c[f] # {}} |-> c[k]]

JsonStringify(cs) == [i \in 1 .. Len(cs) |-> StringifyObj(cs[i])]

\* the values a localStorage key can hold
NoItem == [kind |-> "none", arr |-> <<>>]
EmptyItem == [kind |-> "empty", arr |-> <<>>]
MalformedItem == [kind |-> "malformed", arr |-> <<>>]
ObjectItem == [kind |-> "object", arr |-> <<>>]
ArrayItem(json) == [kind |-> "array", arr |-> json]

---------------------------------------------------------------------------
(* Storage adapters *)

\* 'localStorage' in window
HasLocalStorage(b, backend) == b /\ backend # "absent"

\* createMemoryStorage()
MemLoad(mem) == mem
MemSave(mem, cs) == cs
MemClear(mem) == <<>>

\* seeded fault: load never parses what the key holds
LsLoadNothing(b, backend, raw) == <<>>

\* createLocalStorage().load: [] unless the key holds a JSON array
LsLoad(b, backend, raw) ==
    IF ~HasLocalStorage(b, backend) THEN <<>>
    ELSE IF backend = "throws" THEN <<>>
    ELSE IF raw.kind \in {"none", "empty"} THEN <<>>
    ELSE IF raw.kind = "malformed" THEN <<>>
    ELSE IF raw.kind = "array" THEN raw.arr
    ELSE <<>>

\* setItem throws QuotaExceededError when the value does not fit
FitsQuota(json, quota) == Len(json) <= quota

\* seeded fault: a rejected setItem loses what the key held
LsSaveTorn(b, backend, raw, cs, quota) ==
    IF ~HasLocalStorage(b, backend) THEN raw
    ELSE IF backend = "throws" \/ ~FitsQuota(JsonStringify(cs), quota) THEN NoItem
    ELSE ArrayItem(JsonStringify(cs))

\* createLocalStorage().save: setItem(JSON.stringify(comments)), errors swallowed
LsSave(b, backend, raw, cs, quota) ==
    IF ~HasLocalStorage(b, backend) THEN raw
    ELSE IF backend = "throws" \/ ~FitsQuota(JsonStringify(cs), quota) THEN raw
    ELSE ArrayItem(JsonStringify(cs))

\* createLocalStorage().clear: removeItem, errors swallowed
LsClear(b, backend, raw) ==
    IF ~HasLocalStorage(b, backend) THEN raw
    ELSE IF backend = "throws" THEN raw
    ELSE NoItem

\* seeded fault: localStorage is taken to work wherever it exists
canUseLocalStorageUnprobed(b, backend) == HasLocalStorage(b, backend)

\* canUseLocalStorage(): a live write/read probe of the one-character value
\* '1' under a separate test key; on an "inert" backend setItem stores
\* nothing and getItem hands back null
canUseLocalStorage(b, backend) ==
    IF ~HasLocalStorage(b, backend) THEN FALSE
    ELSE IF backend = "throws" THEN FALSE
    ELSE IF backend = "inert" THEN FALSE
    ELSE TRUE

---------------------------------------------------------------------------
(* The page: scroll offset, viewport size and the element #box *)

Pt(a, b) == <<RInt(a), RInt(b)>>

Rect(l, t, w, h) ==
    [present |-> TRUE, left |-> RInt(l), top |-> RInt(t),
     width |-> RInt(w), height |-> RInt(h)]

\* #box is not in the document; getBoundingClientRect of a detached element
\* is all zeros
NoRect ==
    [present |-> FALSE, left |-> RInt(0), top |-> RInt(0),
     width |-> RInt(0), height |-> RInt(0)]

Scrolls == {Pt(0, 0), Pt(5, 7)}
Viewports == {Pt(1000, 500)}
Rects == {Rect(100, 200, 400, 100), Rect(100, 200, 800, 100), NoRect}

\* what the position computation reads from the page
Env == [browser |-> browser, scroll |-> scroll, viewport |-> viewport, rect |-> boxRect]
EnvNext == [browser |-> browser', scroll |-> scroll', viewport |-> viewport', rect |-> boxRect']

\* document.querySelector(path): the element, "null", or "throws" for a
\* selector that is not valid CSS
QuerySelector(path, e) ==
    IF path = "#box" THEN (IF e.rect.present THEN "box" ELSE "null")
    ELSE IF path = "##" \/ path = "" THEN "throws"
    ELSE "null"

\* CommentManager.getElementPath for the elements of the model: #box has an
\* id; for body the ancestor walk is empty
getElementPath(el) == IF el = "box" THEN "#box" ELSE ""

\* CommentManager.resolveElementByPath: null for no document, an empty path
\* or a selector querySelector rejects
resolveElementByPath(path, e) ==
    IF ~e.browser \/ path = "" THEN "null"
    ELSE IF QuerySelector(path, e) = "throws" THEN "null"
    ELSE QuerySelector(path, e)

\* el.getBoundingClientRect() for the elements of the model; body starts at
\* the page origin and spans the viewport
BoundingRect(el, e) ==
    IF el = "box" THEN e.rect
    ELSE [present |-> TRUE, left |-> RSub(RInt(0), e.scroll[1]),
          top |-> RSub(RInt(0), e.scroll[2]),
          width |-> e.viewport[1], height |-> e.viewport[2]]

\* document.elementFromPoint(vx, vy): null outside the viewport, else the
\* topmost element at the point
ElementFromPoint(vx, vy, e) ==
    IF \/ RLt(vx, RInt(0)) \/ RLt(vy, RInt(0))
       \/ ~RLt(vx, e.viewport[1]) \/ ~RLt(vy, e.viewport[2])
    THEN "null"
    ELSE IF /\ e.rect.present
            /\ RLe(e.rect.left, vx) /\ RLt(vx, RAdd(e.rect.left, e.rect.width))
            /\ RLe(e.rect.top, vy) /\ RLt(vy, RAdd(e.rect.top, e.rect.height))
    THEN "box"
    ELSE "body"

---------------------------------------------------------------------------
(* Position of a pin, and the overlay's redraw *)

\* seeded fault: the position is always taken from the page coordinates
PinPosAbsolute(c, e) ==
    <<RSub(c.x, IF e.browser THEN e.scroll[1] ELSE RInt(0)),
      RSub(c.y, IF e.browser THEN e.scroll[2] ELSE RInt(0))>>

\* seeded fault: the fallback forgets to subtract the scroll offset
PinPosUnscrolled(c, e) ==
    LET a == Get(c, "anchor")
    IN  IF a # {} /\ e.browser
           /\ resolveElementByPath((CHOOSE v \in a : TRUE).path, e) # "null"
        THEN LET an == CHOOSE v \in a : TRUE
                 rect == BoundingRect(resolveElementByPath(an.path, e), e)
             IN  <<RAdd(rect.left, RMul(an.rx, rect.width)),
                   RAdd(rect.top, RMul(an.ry, rect.height))>>
        ELSE <<c.x, c.y>>

\* renderOverlay, per comment: viewport coordinates from the anchor element
\* if it resolves, else from the absolute page coordinates
PinPos(c, e) ==
    LET a == Get(c, "anchor")
        sx == IF e.browser THEN e.scroll[1] ELSE RInt(0)
        sy == IF e.browser THEN e.scroll[2] ELSE RInt(0)
    IN  IF a # {} /\ e.browser
        THEN LET an == CHOOSE v \in a : TRUE
                 el == resolveElementByPath(an.path, e)
             IN  IF el # "null"
                 THEN LET rect == BoundingRect(el, e)
                      IN  <<RAdd(rect.left, RMul(an.rx, rect.width)),
                            RAdd(rect.top, RMul(an.ry, rect.height))>>
                 ELSE <<RSub(c.x, e.scroll[1]), RSub(c.y, e.scroll[2])>>
        ELSE <<RSub(c.x, sx), RSub(c.y, sy)>>

\* the bubble renderOverlay creates for one comment
Bubble(c, e) == [id |-> c.id, left |-> PinPos(c, e)[1], top |-> PinPos(c, e)[2]]

\* the presentation of a bubble as renderOverlay creates it: collapsed to a
\* 24px circle, its text, metadata line, action row and drag handle hidden
\* (display 'none', opacity 0), no listener on it, no timer for it, no
\* transition running
FreshRow == [display |-> FALSE, opacity |-> 0, hides |-> 0, running |-> FALSE]

FreshPin ==
    [state |-> "collapsed", big |-> FALSE, text |-> FALSE, onEnds |-> 0,
     grow |-> {}, shrink |-> {}, timers |-> 0, mapped |-> FALSE,
     textHides |-> 0, textRunning |-> FALSE,
     meta |-> FreshRow, actions |-> FreshRow, handle |-> FALSE, last |-> "none"]

FreshPins == [i \in 1 .. MaxComments |-> FreshPin]

\* the bubbles of an overlay that was redrawn are new elements; without an
\* overlay nothing is drawn
Rebuilt(ov, h) == IF ov THEN FreshPins ELSE h

NoEditor ==
    [kind |-> "none", left |-> RInt(0), top |-> RInt(0), opt |-> "none",
     id |-> 0, where |-> "none"]

\* no drag: dragging is false and neither onMouseMove nor onMouseUp is
\* registered on window
NoDrag ==
    [active |-> FALSE, id |-> 0, idx |-> 0, offX |-> RInt(0), offY |-> RInt(0),
     left |-> RInt(0), top |-> RInt(0), live |-> FALSE,
     onMouseMove |-> FALSE, onMouseUp |-> FALSE]

\* seeded fault: onMouseUp removes its listeners after it has found the
\* comment, and only then
ReleasedIfFound(d, found) ==
    IF found THEN NoDrag ELSE [d EXCEPT !.active = FALSE]

\* the drag closure after onMouseUp: dragging = false and both listeners
\* removed from window, before the comment is looked up
Released(d, found) == NoDrag

\* seeded fault: a redraw moves the bubbles it finds by the scroll offset
\* instead of computing their positions from the comments
renderOverlayShifted(ov, oldPins, cs, ed, d, e) ==
    IF ~ov THEN [pins |-> oldPins, editor |-> ed, drag |-> d]
    ELSE [pins |-> [i \in 1 .. Len(cs) |->
                       IF i \in DOMAIN oldPins /\ oldPins[i].id = cs[i].id
                       THEN [oldPins[i] EXCEPT !.left = RSub(@, e.scroll[1]),
                                               !.top = RSub(@, e.scroll[2])]
                       ELSE Bubble(cs[i], e)],
          editor |-> IF ed.kind # "none" THEN [ed EXCEPT !.where = "overlay"] ELSE ed,
          drag |-> [d EXCEPT !.live = FALSE]]

\* CommentManager.renderOverlay: nothing without an overlay; else the
\* container is emptied, one bubble is created per comment, and the editor,
\* if one is open, is appended again
renderOverlay(ov, oldPins, cs, ed, d, e) ==
    IF ~ov THEN [pins |-> oldPins, editor |-> ed, drag |-> d]
    ELSE [pins |-> [i \in 1 .. Len(cs) |-> Bubble(cs[i], e)],
          editor |-> IF ed.kind # "none" THEN [ed EXCEPT !.where = "overlay"] ELSE ed,
          drag |-> [d EXCEPT !.live = FALSE]]

\* seeded fault: the overlay is created without attachViewportHandlers
ensureOverlayUnwatched(b, ov, hh, vh) ==
    IF ~b \/ ov THEN [overlay |-> ov, hover |-> hh, viewport |-> vh]
    ELSE [overlay |-> TRUE, hover |-> TRUE, viewport |-> vh]

\* CommentManager.ensureOverlay with attachHoverTracking and
\* attachViewportHandlers
ensureOverlay(b, ov, hh, vh) ==
    IF ~b \/ ov THEN [overlay |-> ov, hover |-> hh, viewport |-> vh]
    ELSE [overlay |-> TRUE, hover |-> TRUE, viewport |-> TRUE]

\* CommentManager.removeEditor
removeEditor(ed) == NoEditor

\* seeded fault: persist that never reaches storage.save
persistNothing(kind, mem, raw, cs, b, backend, quota) ==
    [mem |-> mem, raw |-> raw, failed |-> FALSE]

\* CommentManager.persist: storage.save(this.comments)
persist(kind, mem, raw, cs, b, backend, quota) ==
    IF kind = "memory"
    THEN [mem |-> MemSave(mem, cs), raw |-> raw, failed |-> FALSE]
    ELSE [mem |-> mem, raw |-> LsSave(b, backend, raw, cs, quota),
          failed |-> LsSave(b, backend, raw, cs, quota) # ArrayItem(JsonStringify(cs))]

\* storage.load() of the manager's current adapter
StorageLoad(kind, mem, raw, b, backend) ==
    IF kind = "memory" THEN MemLoad(mem) ELSE LsLoad(b, backend, raw)

\* seeded fault: clear saves an empty list instead of removing the key
StorageClearBySave(kind, mem, raw, b, backend) ==
    IF kind = "memory"
    THEN [mem |-> <<>>, raw |-> raw]
    ELSE [mem |-> mem, raw |-> LsSave(b, backend, raw, <<>>, 0)]

\* storage.clear() of the manager's current adapter
StorageClear(kind, mem, raw, b, backend) ==
    IF kind = "memory"
    THEN [mem |-> MemClear(mem), raw |-> raw]
    ELSE [mem |-> mem, raw |-> LsClear(b, backend, raw)]

---------------------------------------------------------------------------
(* Inputs the model draws *)

Str(a) == <<a>>
Half == Rat(1, 2)
Quarter == Rat(1, 4)

\* Date.now()
Clock == {7}

\* arguments of programmatic addComment calls
AddArgs ==
    { [id |-> {}, text |-> Str("a"), x |-> RInt(10), y |-> RInt(20),
       timestamp |-> {}, nx |-> {}, ny |-> {}, anchor |-> {}],
      [id |-> {1}, text |-> <<"b", " ">>, x |-> RInt(200), y |-> RInt(250),
       timestamp |-> {9}, nx |-> {Half}, ny |-> {},
       anchor |-> {[path |-> "#box", rx |-> Quarter, ry |-> Half]}],
      [id |-> {}, text |-> <<>>, x |-> RInt(30), y |-> RInt(40),
       timestamp |-> {}, nx |-> {}, ny |-> {},
       anchor |-> {[path |-> "##", rx |-> Rat(3, 2), ry |-> Rat(-1, 2)]}] }

\* what the user types into an editor before submitting
Texts == {<<>>, <<" ">>, <<" ", "a">>}

\* arguments of beginCommentAt(x, y, options): options.anchor is absent
\* ("none"), the selector string '#box' ("selector") or the element #box
\* itself ("element")
CreateArgs ==
    { <<RInt(200), RInt(250), "none">>, <<RInt(10), RInt(20), "selector">> }

\* pointer positions of mousemove events during a drag, and the offset of
\* the pointer from the pin's position at mousedown
Pointers == {Pt(50, 60)}
GrabOffsets == {Pt(3, -2)}

---------------------------------------------------------------------------
(* Initial state: a freshly constructed CommentManager on a page *)

\* no document is being looked at
NoProbe == [stage |-> "none"]

\* what a caller that uses a storage adapter on its own remembers: its last
\* two calls, the list it last saved and the list load() last returned
NoCalls == [op |-> "none", prev |-> "none", arg |-> <<>>, result |-> <<>>]

\* a browser page that asks for memory storage
MemoryWorld ==
    [browser |-> TRUE, backend |-> "ok", storage |-> "memory", quota |-> MaxComments]

\* the pages the manager runs on: no DOM at all (server-side rendering), and
\* browser pages that ask for localStorage: one whose localStorage throws on
\* every access (the manager falls back to memory), one with room for every
\* list and one with room for a single comment
Worlds ==
    { [browser |-> FALSE, backend |-> "absent", storage |-> "memory", quota |-> 0],
      [browser |-> TRUE, backend |-> "throws", storage |-> "localStorage", quota |-> 0],
      [browser |-> TRUE, backend |-> "ok", storage |-> "localStorage", quota |-> MaxComments],
      [browser |-> TRUE, backend |-> "ok", storage |-> "localStorage", quota |-> 1] }

\* a freshly constructed manager on one of the pages ws; the key holds
\* something that is not a comment list
InitPage(ws) ==
    /\ \E w \in ws :
          /\ browser = w.browser
          /\ lsBackend = w.backend
          /\ hostStorage = w.storage
          /\ lsQuota = w.quota
    /\ lsValue = (IF lsBackend = "ok" THEN MalformedItem ELSE NoItem)
    /\ isEnabled = FALSE
    /\ storageKind = "memory"
    /\ memStore = <<>>
    /\ comments = <<>>
    /\ overlay = FALSE
    /\ pins = <<>>
    /\ editor = NoEditor
    /\ hoverHandler = FALSE
    /\ viewportHandler = FALSE
    /\ keyHandler = FALSE
    /\ scroll = Pt(0, 0)
    /\ viewport = Pt(1000, 500)
    /\ boxRect = Rect(100, 200, 400, 100)
    /\ drag = NoDrag
    /\ writeFailed = FALSE
    /\ adapter = NoCalls
    /\ visible = TRUE
    /\ overlayShown = FALSE
    /\ mirror = TRUE
    /\ broadcast = <<>>
    /\ hover = FreshPins

InitIn(ws) == InitPage(ws) /\ probe = NoProbe

Init == InitIn(Worlds)

\* the user does one thing at a time: no editor is opened or operated and
\* the page is not scrolled, resized or laid out anew in the middle of a
\* drag, and no pin is grabbed while an editor is open
PointerFree == ~drag.active

pageVars == <<browser, lsBackend, lsQuota, hostStorage, probe, scroll, viewport, boxRect>>
siteVars == <<browser, lsBackend, lsQuota, hostStorage, scroll, viewport, boxRect>>
handlerVars == <<hoverHandler, viewportHandler, keyHandler>>
storeVars == <<lsValue, memStore, writeFailed>>
visibleVars == <<visible, mirror, broadcast>>

---------------------------------------------------------------------------
(* Lifecycle *)

\* seeded fault: enable keeps the memory adapter the manager has
createMemoryStorageKept == memStore

\* createMemoryStorage(): the inMemory of a new memory adapter
createMemoryStorage == <<>>

\* CommentManager.enable(options), options.storage = desired, but for what
\* it does to the debug flag and writes to the console
EnableQuiet(desired) ==
    IF ~browser
    THEN /\ memStore' = createMemoryStorage
         /\ comments' = <<>>
         /\ isEnabled' = TRUE
         /\ storageKind' = "memory"
         /\ writeFailed' = FALSE
         /\ UNCHANGED <<siteVars, handlerVars, lsValue, overlay, pins, editor, drag, adapter,
                         visibleVars, overlayShown, hover>>
    ELSE LET useLs == desired = "localStorage"
                        /\ canUseLocalStorage(browser, lsBackend)
             kind == IF useLs THEN "localStorage" ELSE "memory"
             loaded == StorageLoad(kind, createMemoryStorage, lsValue, browser,
                                   lsBackend)
             eo == ensureOverlay(browser, overlay, hoverHandler, viewportHandler)
             r == renderOverlay(eo.overlay, pins, loaded, editor, drag, Env)
         IN  /\ storageKind' = kind
             /\ memStore' = createMemoryStorage
             /\ comments' = loaded
             /\ overlay' = eo.overlay
             /\ hoverHandler' = eo.hover
             /\ viewportHandler' = eo.viewport
             /\ pins' = r.pins
             /\ editor' = r.editor
             /\ drag' = r.drag
             /\ keyHandler' = TRUE
             /\ isEnabled' = TRUE
             /\ writeFailed' = FALSE
             /\ overlayShown' = (eo.overlay /\ visible)
             /\ hover' = Rebuilt(eo.overlay, hover)
             /\ UNCHANGED <<siteVars, lsValue, adapter, visibleVars>>

\* CommentManager.enable(options), options.storage = desired
EnableWith(desired) == EnableQuiet(desired) /\ UNCHANGED probe

\* the host page enables the comments with its options
Enable == EnableWith(hostStorage)

\* CommentManager.teardownOverlay: the overlay leaves the page with
\* everything in it; editorElement is not reset
teardownOverlay(ov, ps, ed, d, hh, vh, kh) ==
    IF ~ov
    THEN [overlay |-> ov, pins |-> ps, editor |-> ed, drag |-> d,
          hover |-> hh, viewport |-> vh, key |-> kh]
    ELSE [overlay |-> FALSE, pins |-> <<>>,
          editor |-> IF ed.kind # "none" THEN [ed EXCEPT !.where = "detached"] ELSE ed,
          drag |-> [d EXCEPT !.live = FALSE],
          hover |-> FALSE, viewport |-> FALSE, key |-> FALSE]

\* CommentManager.disable()
Disable ==
    IF ~isEnabled
    THEN UNCHANGED vars
    ELSE LET t == teardownOverlay(overlay, pins, editor, drag,
                                  hoverHandler, viewportHandler, keyHandler)
         IN  /\ overlay' = t.overlay
             /\ pins' = t.pins
             /\ editor' = t.editor
             /\ drag' = t.drag
             /\ hoverHandler' = t.hover
             /\ viewportHandler' = t.viewport
             /\ keyHandler' = t.key
             /\ isEnabled' = FALSE
             /\ overlayShown' = (t.overlay /\ overlayShown)
             /\ hover' = Rebuilt(overlay, hover)
             /\ UNCHANGED <<pageVars, storeVars, storageKind, comments, adapter,
                            visibleVars>>

---------------------------------------------------------------------------
(* Comment store *)

\* this.comments = cs; this.persist()
PersistList(cs) ==
    LET p == persist(storageKind, memStore, lsValue, cs, browser, lsBackend, lsQuota)
    IN  /\ comments' = cs
        /\ memStore' = p.mem
        /\ lsValue' = p.raw
        /\ writeFailed' = (writeFailed \/ p.failed)

\* this.renderOverlay() over the list cs, with editor ed and drag closure d
RenderList(cs, ed, d) ==
    LET r == renderOverlay(overlay, pins, cs, ed, d, Env)
    IN  /\ pins' = r.pins
        /\ editor' = r.editor
        /\ drag' = r.drag
        /\ hover' = Rebuilt(overlay, hover)

\* the CommentPoint addComment builds from its argument
Created(arg, fresh, now) ==
    [id |-> IF arg.id # {} THEN CHOOSE v \in arg.id : TRUE ELSE fresh,
     text |-> arg.text, x |-> arg.x, y |-> arg.y,
     timestamp |-> IF arg.timestamp # {} THEN CHOOSE v \in arg.timestamp : TRUE ELSE now,
     nx |-> arg.nx, ny |-> arg.ny, anchor |-> arg.anchor]

\* the id Math.random().toString(36).slice(2) yields: one no comment of the
\* list has (which one is immaterial: the least)
FreshIdsIn(ids, cs) ==
    IF ids \ IdsOf(cs) = {} THEN {}
    ELSE {CHOOSE i \in ids \ IdsOf(cs) : \A j \in ids \ IdsOf(cs) : i <= j}

FreshIds(cs) == FreshIdsIn(Ids, cs)

\* CommentManager.addComment(comment) with an argument of args, on a page
\* whose comments take their ids from ids
AddCommentFrom(args, ids) ==
    /\ Len(comments) < Cardinality(ids)
    /\ \E arg \in args, fresh \in FreshIdsIn(ids, comments), now \in Clock :
          LET cs == Append(comments, Created(arg, fresh, now))
          IN  /\ PersistList(cs)
              /\ RenderList(cs, editor, drag)
    /\ UNCHANGED <<pageVars, handlerVars, isEnabled, storageKind, overlay, adapter,
                   visibleVars, overlayShown>>

AddComment == AddCommentFrom(AddArgs, Ids)

\* CommentManager.clear()
Clear ==
    LET c == StorageClear(storageKind, memStore, lsValue, browser, lsBackend)
    IN  /\ comments' = <<>>
        /\ memStore' = c.mem
        /\ lsValue' = c.raw
        /\ RenderList(<<>>, editor, drag)
        /\ UNCHANGED <<pageVars, handlerVars, isEnabled, storageKind, overlay,
                       writeFailed, adapter, visibleVars, overlayShown>>

\* seeded fault: deleteById persists and redraws whether or not it removed
\* anything
deleteByIdAlways(id) ==
    /\ PersistList(FilterOut(comments, id))
    /\ RenderList(FilterOut(comments, id), editor, drag)
    /\ UNCHANGED <<pageVars, handlerVars, isEnabled, storageKind, overlay, adapter,
                   visibleVars, overlayShown>>

\* CommentManager.deleteById(id)
deleteById(id) ==
    LET cs == FilterOut(comments, id)
    IN  IF Len(cs) # Len(comments)
        THEN /\ PersistList(cs)
             /\ RenderList(cs, editor, drag)
             /\ UNCHANGED <<pageVars, handlerVars, isEnabled, storageKind,
                            overlay, adapter, visibleVars, overlayShown>>
        ELSE UNCHANGED vars

DeleteByIdIn(ids) == \E id \in ids : deleteById(id)

DeleteById == DeleteByIdIn(Ids)

---------------------------------------------------------------------------
(* Editors *)

\* CommentManager.openEditorFor(commentId) with an id of ids
OpenEditorForIn(ids) ==
    /\ PointerFree
    /\ \E id \in ids :
        LET idx == FindIndex(comments, id)
            eo == ensureOverlay(browser, overlay, hoverHandler, viewportHandler)
        IN  IF ~browser \/ idx = 0
            THEN UNCHANGED vars
            ELSE /\ overlay' = eo.overlay
                 /\ hoverHandler' = eo.hover
                 /\ viewportHandler' = eo.viewport
                 /\ editor' = [kind |-> "edit",
                               left |-> RSub(comments[idx].x, scroll[1]),
                               top |-> RSub(comments[idx].y, scroll[2]),
                               opt |-> "none", id |-> id, where |-> "overlay"]
                 /\ overlayShown' = (IF overlay THEN overlayShown ELSE visible)
                 /\ UNCHANGED <<pageVars, storeVars, isEnabled, storageKind, comments,
                                pins, keyHandler, drag, adapter, visibleVars, hover>>

OpenEditorFor == OpenEditorForIn(Ids)

\* CommentManager.beginCommentAt(x, y, options)
BeginCommentAt ==
    /\ PointerFree
    /\ \E a \in CreateArgs :
        LET eo == ensureOverlay(browser, overlay, hoverHandler, viewportHandler)
        IN  IF ~browser
            THEN UNCHANGED vars
            ELSE /\ overlay' = eo.overlay
                 /\ hoverHandler' = eo.hover
                 /\ viewportHandler' = eo.viewport
                 /\ editor' = [kind |-> "create", left |-> a[1], top |-> a[2],
                               opt |-> a[3], id |-> 0, where |-> "overlay"]
                 /\ overlayShown' = (IF overlay THEN overlayShown ELSE visible)
                 /\ UNCHANGED <<pageVars, storeVars, isEnabled, storageKind, comments,
                                pins, keyHandler, drag, adapter, visibleVars, hover>>

\* the anchor the create editor's submit computes at (vx, vy): {} when no
\* element is found
SubmitAnchor(opt, vx, vy, e) ==
    LET el == IF opt = "selector" THEN QuerySelector("#box", e)
              ELSE IF opt = "element" THEN "box"
              ELSE ElementFromPoint(vx, vy, e)
    IN  IF ~e.browser \/ el = "null" THEN {}
        ELSE LET rect == BoundingRect(el, e)
                 rx == IF RLt(RInt(0), rect.width)
                       THEN RDiv(RSub(vx, rect.left), rect.width) ELSE Half
                 ry == IF RLt(RInt(0), rect.height)
                       THEN RDiv(RSub(vy, rect.top), rect.height) ELSE Half
             IN  {[path |-> getElementPath(el),
                   rx |-> RMin(RMax(rx, RInt(0)), RInt(1)),
                   ry |-> RMin(RMax(ry, RInt(0)), RInt(1))]}

\* the argument the create editor's submit hands to addComment
SubmitArg(ed, text, e) ==
    LET pageX == RAdd(ed.left, IF e.browser THEN e.scroll[1] ELSE RInt(0))
        pageY == RAdd(ed.top, IF e.browser THEN e.scroll[2] ELSE RInt(0))
        vw == IF e.browser THEN RMax(RInt(1), e.viewport[1]) ELSE RInt(1)
        vh == IF e.browser THEN RMax(RInt(1), e.viewport[2]) ELSE RInt(1)
    IN  [id |-> {}, text |-> text, x |-> pageX, y |-> pageY, timestamp |-> {},
         nx |-> {RDiv(pageX, vw)}, ny |-> {RDiv(pageY, vh)},
         anchor |-> SubmitAnchor(ed.opt, ed.left, ed.top, e)]

\* seeded fault: the edit also stamps the comment with the current time
EditedStamped(c, next) ==
    Spread(c, [text |-> next, timestamp |-> CHOOSE now \in Clock : TRUE])

\* the comment the edit editor's submit writes: { ...comment, text: next }
Edited(c, next) == Spread(c, [text |-> next])

\* the editor can be operated: it is in the overlay of the page
EditorOpen(kind) ==
    editor.kind = kind /\ editor.where = "overlay" /\ overlay /\ PointerFree

\* beginCommentAt's submit (the Add button, Enter, Ctrl/Cmd+Enter) with the
\* textarea holding t
CreateSubmitText(t) ==
    /\ EditorOpen("create")
    /\ IF Len(Trim(t)) = 0
       THEN UNCHANGED vars
       ELSE /\ Len(comments) < MaxComments
            /\ \E fresh \in FreshIds(comments), now \in Clock :
                  LET arg == SubmitArg(editor, Trim(t), Env)
                      cs == Append(comments, Created(arg, fresh, now))
                  IN  /\ PersistList(cs)
                      /\ RenderList(cs, removeEditor(editor), drag)
            /\ UNCHANGED <<pageVars, handlerVars, isEnabled, storageKind,
                           overlay, adapter, visibleVars, overlayShown>>

CreateSubmit == \E t \in Texts : CreateSubmitText(t)

\* openEditorFor's submit (the Edit button, Enter, Ctrl/Cmd+Enter) with the
\* textarea holding t
EditSubmitText(t) ==
    /\ EditorOpen("edit")
    /\ LET next == Trim(t)
           idx == FindIndex(comments, editor.id)
       IN  IF Len(next) = 0
           THEN UNCHANGED vars
           ELSE IF idx > 0
           THEN LET cs == [comments EXCEPT ![idx] = Edited(@, next)]
                    r == renderOverlay(overlay, pins, cs, editor, drag, Env)
                IN  /\ PersistList(cs)
                    /\ pins' = r.pins
                    /\ drag' = r.drag
                    /\ editor' = removeEditor(r.editor)
                    /\ hover' = Rebuilt(overlay, hover)
                    /\ UNCHANGED <<pageVars, handlerVars, isEnabled, storageKind,
                                   overlay, adapter, visibleVars, overlayShown>>
           ELSE /\ editor' = removeEditor(editor)
                /\ UNCHANGED <<pageVars, handlerVars, storeVars, isEnabled,
                               storageKind, comments, overlay, pins, drag, adapter,
                               visibleVars, overlayShown, hover>>

EditSubmit == \E t \in Texts : EditSubmitText(t)

\* Cancel / Discard changes / Escape
DismissEditor ==
    /\ editor.kind # "none" /\ editor.where = "overlay" /\ overlay /\ PointerFree
    /\ editor' = removeEditor(editor)
    /\ UNCHANGED <<pageVars, handlerVars, storeVars, isEnabled, storageKind,
                   comments, overlay, pins, drag, adapter, visibleVars, overlayShown,
                   hover>>

---------------------------------------------------------------------------
(* Viewport events and page layout *)

\* the page scrolls; window dispatches 'scroll' to viewportHandler
Scroll ==
    /\ browser
    /\ PointerFree
    /\ \E sc \in Scrolls \ {scroll} : scroll' = sc
    /\ UNCHANGED <<browser, lsBackend, lsQuota, hostStorage, probe, viewport, boxRect>>
    /\ IF viewportHandler
       THEN LET r == renderOverlay(overlay, pins, comments, editor, drag, EnvNext)
            IN  /\ pins' = r.pins /\ editor' = r.editor /\ drag' = r.drag
                /\ hover' = Rebuilt(overlay, hover)
       ELSE UNCHANGED <<pins, editor, drag, hover>>
    /\ UNCHANGED <<handlerVars, storeVars, isEnabled, storageKind, comments,
                   overlay, adapter, visibleVars, overlayShown>>

\* the window is resized and the page is laid out for the new size; window
\* dispatches 'resize' to viewportHandler
Resize ==
    /\ browser
    /\ PointerFree
    /\ \E vp \in Viewports, rc \in Rects : viewport' = vp /\ boxRect' = rc
    /\ UNCHANGED <<browser, lsBackend, lsQuota, hostStorage, probe, scroll>>
    /\ IF viewportHandler
       THEN LET r == renderOverlay(overlay, pins, comments, editor, drag, EnvNext)
            IN  /\ pins' = r.pins /\ editor' = r.editor /\ drag' = r.drag
                /\ hover' = Rebuilt(overlay, hover)
       ELSE UNCHANGED <<pins, editor, drag, hover>>
    /\ UNCHANGED <<handlerVars, storeVars, isEnabled, storageKind, comments,
                   overlay, adapter, visibleVars, overlayShown>>

\* the page changes the box of #box, removes it or inserts it; no event
\* reaches the manager
LayoutChange ==
    /\ browser
    /\ PointerFree
    /\ \E rc \in Rects \ {boxRect} : boxRect' = rc
    /\ UNCHANGED <<browser, lsBackend, lsQuota, hostStorage, probe, scroll, viewport,
                   handlerVars, storeVars,
                   isEnabled, storageKind, comments, overlay, pins, editor, drag,
                   adapter, visibleVars, overlayShown, hover>>

---------------------------------------------------------------------------
(* Dragging a pin *)

\* mousedown on the drag handle of the i-th bubble
HandleMouseDown ==
    /\ overlay
    /\ ~drag.active
    /\ editor.kind = "none"
    /\ \E i \in 1 .. Len(pins), off \in GrabOffsets :
          drag' = [active |-> TRUE, id |-> pins[i].id, idx |-> i,
                   offX |-> off[1], offY |-> off[2],
                   left |-> pins[i].left, top |-> pins[i].top, live |-> TRUE,
                   onMouseMove |-> TRUE, onMouseUp |-> TRUE]
    /\ UNCHANGED <<pageVars, handlerVars, storeVars, isEnabled, storageKind,
                   comments, overlay, pins, editor, adapter, visibleVars, overlayShown,
                   hover>>

\* onMouseMove of the dragged bubble: the bubble follows the pointer
DragMove ==
    /\ drag.active
    /\ \E p \in Pointers :
          LET nl == RSub(p[1], drag.offX)
              nt == RSub(p[2], drag.offY)
          IN  /\ drag' = [drag EXCEPT !.left = nl, !.top = nt]
              /\ pins' = IF drag.live
                         THEN [pins EXCEPT ![drag.idx] = [@ EXCEPT !.left = nl, !.top = nt]]
                         ELSE pins
    /\ UNCHANGED <<pageVars, handlerVars, storeVars, isEnabled, storageKind,
                   comments, overlay, editor, adapter, visibleVars, overlayShown,
                   hover>>

\* a drag gesture moves the pointer before it releases it
PointerMoved ==
    \E p \in Pointers :
        drag.left = RSub(p[1], drag.offX) /\ drag.top = RSub(p[2], drag.offY)

\* seeded fault: the scroll offset is not added to the drop position
DroppedUnscrolled(left, top, e) ==
    LET vw == IF e.browser THEN RMax(RInt(1), e.viewport[1]) ELSE RInt(1)
        vh == IF e.browser THEN RMax(RInt(1), e.viewport[2]) ELSE RInt(1)
    IN  [x |-> left, y |-> top, nx |-> {RDiv(left, vw)}, ny |-> {RDiv(top, vh)}]

\* seeded fault: a move also detaches the comment from its anchor
DroppedDetached(left, top, e) ==
    LET px == RAdd(left, IF e.browser THEN e.scroll[1] ELSE RInt(0))
        py == RAdd(top, IF e.browser THEN e.scroll[2] ELSE RInt(0))
        vw == IF e.browser THEN RMax(RInt(1), e.viewport[1]) ELSE RInt(1)
        vh == IF e.browser THEN RMax(RInt(1), e.viewport[2]) ELSE RInt(1)
    IN  [x |-> px, y |-> py, nx |-> {RDiv(px, vw)}, ny |-> {RDiv(py, vh)},
         anchor |-> {}]

\* the fields onMouseUp writes for a bubble dropped at (left, top)
Dropped(left, top, e) ==
    LET px == RAdd(left, IF e.browser THEN e.scroll[1] ELSE RInt(0))
        py == RAdd(top, IF e.browser THEN e.scroll[2] ELSE RInt(0))
        vw == IF e.browser THEN RMax(RInt(1), e.viewport[1]) ELSE RInt(1)
        vh == IF e.browser THEN RMax(RInt(1), e.viewport[2]) ELSE RInt(1)
    IN  [x |-> px, y |-> py, nx |-> {RDiv(px, vw)}, ny |-> {RDiv(py, vh)}]

\* onMouseUp of the dragged bubble: the drop is committed to the list
DragUp ==
    /\ drag.active
    /\ PointerMoved
    /\ LET idx == FindIndex(comments, drag.id)
          IN  IF idx > 0
              THEN LET cs == [comments EXCEPT
                                ![idx] = Spread(@, Dropped(drag.left, drag.top, Env))]
                   IN  /\ PersistList(cs)
                       /\ RenderList(cs, editor, Released(drag, TRUE))
              ELSE /\ drag' = Released(drag, FALSE)
                   /\ UNCHANGED <<storeVars, comments, pins, editor, hover>>
    /\ UNCHANGED <<pageVars, handlerVars, isEnabled, storageKind, overlay, adapter,
                   visibleVars, overlayShown>>

---------------------------------------------------------------------------
(* The manager on a page *)

Next ==
    \/ Enable
    \/ Disable
    \/ AddComment
    \/ Clear
    \/ DeleteById
    \/ OpenEditorFor
    \/ BeginCommentAt
    \/ CreateSubmit
    \/ EditSubmit
    \/ DismissEditor
    \/ HandleMouseDown
    \/ DragMove
    \/ DragUp

Spec == Init /\ [][Next]_vars

---------------------------------------------------------------------------
(* The manager on a page that scrolls, resizes and changes its layout *)

InitView == InitIn({MemoryWorld})

NextView ==
    \/ Enable
    \/ Disable
    \/ AddComment
    \/ Clear
    \/ DeleteById
    \/ OpenEditorFor
    \/ EditSubmit
    \/ DismissEditor
    \/ Scroll
    \/ Resize
    \/ LayoutChange
    \/ HandleMouseDown
    \/ DragMove
    \/ DragUp

SpecView == InitView /\ [][NextView]_vars

---------------------------------------------------------------------------
(* A storage adapter used on its own: a caller saves, loads and clears     *)

\* the lists a caller hands to save
StoredLists ==
    UNION { { [i \in 1 .. n |-> Created(f[i], i, CHOOSE now \in Clock : TRUE)] :
                f \in [1 .. n -> AddArgs] } : n \in 0 .. MaxComments }

\* where an adapter is created: off the browser, in a browser without
\* localStorage or with one that throws, and in a browser whose localStorage
\* works, with what the key holds beforehand and the room it has
AdapterWorlds ==
    { [browser |-> FALSE, backend |-> "absent", kind |-> k, quota |-> 0, raw |-> NoItem] :
        k \in {"memory", "localStorage"} }
    \cup { [browser |-> TRUE, backend |-> b, kind |-> "localStorage", quota |-> 0,
            raw |-> NoItem] : b \in {"absent", "throws"} }
    \cup { [browser |-> TRUE, backend |-> "ok", kind |-> "memory", quota |-> MaxComments,
            raw |-> NoItem] }
    \cup { [browser |-> TRUE, backend |-> "ok", kind |-> "localStorage",
            quota |-> MaxComments, raw |-> r] :
            r \in {NoItem, EmptyItem, MalformedItem, ObjectItem} }
    \cup { [browser |-> TRUE, backend |-> "ok", kind |-> "localStorage", quota |-> 1,
            raw |-> NoItem] }

InitStorage ==
    /\ \E w \in AdapterWorlds :
          /\ browser = w.browser
          /\ lsBackend = w.backend
          /\ hostStorage = w.kind
          /\ storageKind = w.kind
          /\ lsQuota = w.quota
          /\ lsValue = w.raw
    /\ isEnabled = FALSE
    /\ memStore = <<>>
    /\ comments = <<>>
    /\ overlay = FALSE
    /\ pins = <<>>
    /\ editor = NoEditor
    /\ hoverHandler = FALSE
    /\ viewportHandler = FALSE
    /\ keyHandler = FALSE
    /\ scroll = Pt(0, 0)
    /\ viewport = Pt(1000, 500)
    /\ boxRect = Rect(100, 200, 400, 100)
    /\ drag = NoDrag
    /\ writeFailed = FALSE
    /\ adapter = NoCalls
    /\ visible = TRUE
    /\ overlayShown = FALSE
    /\ mirror = TRUE
    /\ broadcast = <<>>
    /\ hover = FreshPins
    /\ probe = NoProbe

managerVars ==
    <<pageVars, handlerVars, isEnabled, storageKind, comments, overlay, pins,
      editor, drag, writeFailed, visibleVars, overlayShown, hover>>

\* adapter.save(l)
AdapterSave ==
    \E l \in StoredLists :
        LET p == persist(storageKind, memStore, lsValue, l, browser, lsBackend, lsQuota)
        IN  /\ memStore' = p.mem
            /\ lsValue' = p.raw
            /\ adapter' = [op |-> "save", prev |-> adapter.op, arg |-> l, result |-> <<>>]
            /\ UNCHANGED managerVars

\* adapter.load()
AdapterLoad ==
    /\ adapter' = [op |-> "load", prev |-> adapter.op, arg |-> adapter.arg,
                   result |-> StorageLoad(storageKind, memStore, lsValue, browser, lsBackend)]
    /\ UNCHANGED <<managerVars, memStore, lsValue>>

\* adapter.clear()
AdapterClear ==
    LET c == StorageClear(storageKind, memStore, lsValue, browser, lsBackend)
    IN  /\ memStore' = c.mem
        /\ lsValue' = c.raw
        /\ adapter' = [op |-> "clear", prev |-> adapter.op, arg |-> <<>>, result |-> <<>>]
        /\ UNCHANGED managerVars

NextStorage ==
    \/ AdapterSave
    \/ AdapterLoad
    \/ AdapterClear

SpecStorage == InitStorage /\ [][NextStorage]_vars

---------------------------------------------------------------------------
(* The manager on a page whose localStorage fails while it is in use       *)

\* window.localStorage starts to throw on every access (the user blocks the
\* site's data) after the probe of enable() succeeded
StorageBreaks ==
    /\ browser /\ lsBackend = "ok"
    /\ lsBackend' = "throws"
    /\ UNCHANGED <<browser, lsValue, lsQuota, hostStorage, probe, scroll, viewport, boxRect,
                   handlerVars, memStore, writeFailed, isEnabled, storageKind,
                   comments, overlay, pins, editor, drag, adapter, visibleVars,
                   overlayShown, hover>>

\* what other code of the page can leave under the key
ForeignItems == {NoItem, EmptyItem, MalformedItem, ObjectItem}

\* other code of the page writes or removes the manager's key
KeyOverwritten ==
    /\ browser /\ lsBackend = "ok"
    /\ \E v \in ForeignItems \ {lsValue} : lsValue' = v
    /\ UNCHANGED <<pageVars, handlerVars, memStore, writeFailed, isEnabled,
                   storageKind, comments, overlay, pins, editor, drag, adapter,
                   visibleVars, overlayShown, hover>>

\* the page calls createLocalStorage().load() on an adapter of its own
HostLoad ==
    /\ adapter' = [op |-> "load", prev |-> adapter.op, arg |-> <<>>,
                   result |-> LsLoad(browser, lsBackend, lsValue)]
    /\ UNCHANGED <<managerVars, memStore, lsValue>>

NextFault ==
    \/ Enable
    \/ Disable
    \/ AddComment
    \/ Clear
    \/ DeleteById
    \/ StorageBreaks
    \/ KeyOverwritten
    \/ HostLoad

SpecFault == Init /\ [][NextFault]_vars

---------------------------------------------------------------------------
(* Visibility: show, hide, toggleVisibility and the Shift+C key handler    *)

\* the visibility state a handler works on: CommentManager.visible, whether
\* the overlay is displayed, and the events dispatched so far
VisibilityNow == [visible |-> visible, shown |-> overlayShown, events |-> <<>>]

\* seeded fault: the event always carries visible: true
DispatchedTrue(b, v) == IF b THEN <<TRUE>> ELSE <<>>

\* window.dispatchEvent(new CustomEvent('prototype-comments:visibility',
\* { detail: { visible: v } })) inside try/catch: where there is no window
\* the ReferenceError is swallowed and nothing is dispatched
Dispatched(b, v) == IF b THEN <<v>> ELSE <<>>

\* CommentManager.show()
show(vs, ov, b) ==
    [visible |-> TRUE, shown |-> IF ov THEN TRUE ELSE vs.shown,
     events |-> vs.events \o Dispatched(b, TRUE)]

\* seeded fault: hide() sets the flag and leaves the overlay as it is
hideFlagOnly(vs, ov, b) ==
    [visible |-> FALSE, shown |-> vs.shown, events |-> vs.events \o Dispatched(b, FALSE)]

\* CommentManager.hide()
hide(vs, ov, b) ==
    [visible |-> FALSE, shown |-> IF ov THEN FALSE ELSE vs.shown,
     events |-> vs.events \o Dispatched(b, FALSE)]

\* CommentManager.toggleVisibility()
toggleVisibility(vs, ov, b) == IF vs.visible THEN hide(vs, ov, b) ELSE show(vs, ov, b)

\* a listener of the event keeps the boolean of the last event it received
Received(m, events) == IF events = <<>> THEN m ELSE events[Len(events)]

\* the handler returns with the visibility state vs
VisibilityBecomes(vs) ==
    /\ visible' = vs.visible
    /\ overlayShown' = vs.shown
    /\ broadcast' = vs.events
    /\ mirror' = Received(mirror, vs.events)
    /\ UNCHANGED <<pageVars, handlerVars, storeVars, isEnabled, storageKind,
                   comments, overlay, pins, editor, drag, adapter, hover>>

\* the page calls show()
Show == VisibilityBecomes(show(VisibilityNow, overlay, browser))

\* the page calls hide()
Hide == VisibilityBecomes(hide(VisibilityNow, overlay, browser))

\* the page calls toggleVisibility()
ToggleVisibility == VisibilityBecomes(toggleVisibility(VisibilityNow, overlay, browser))

\* keydown events: Shift+C and plain c on the page body, Shift+C typed into
\* a textarea
KeyEvents ==
    { [shiftKey |-> TRUE, key |-> "c", editable |-> FALSE],
      [shiftKey |-> FALSE, key |-> "c", editable |-> FALSE],
      [shiftKey |-> TRUE, key |-> "c", editable |-> TRUE] }

\* the event is Shift+C outside an input, textarea or contenteditable
IsShiftC(ev) == ev.shiftKey /\ ev.key = "c" /\ ~ev.editable

\* attachKeyHandler registers the one handler on window and on document; a
\* keydown event bubbles from its target through document to window
KeyListeners(kh) == IF kh THEN <<"document", "window">> ELSE <<>>

\* CommentManager.keyHandler, one invocation
onKeyDown(vs, ev, ov, b) ==
    IF ev.editable THEN vs
    ELSE IF ev.shiftKey /\ ev.key = "c" THEN toggleVisibility(vs, ov, b)
    ELSE vs

\* the event visits the listeners ls in order
RECURSIVE Propagate(_, _, _, _, _)
Propagate(ls, vs, ev, ov, b) ==
    IF ls = <<>> THEN vs
    ELSE Propagate(Tail(ls), onKeyDown(vs, ev, ov, b), ev, ov, b)

\* the user presses a key: the browser dispatches keydown
KeyDownWith(ev) ==
    /\ browser
    /\ VisibilityBecomes(Propagate(KeyListeners(keyHandler), VisibilityNow, ev,
                                   overlay, browser))

KeyDown == \E ev \in KeyEvents : KeyDownWith(ev)

\* the pages of the control surface: a browser page with memory storage and
\* a server-side rendering without a DOM
ControlWorlds ==
    { MemoryWorld,
      [browser |-> FALSE, backend |-> "absent", storage |-> "memory", quota |-> 0] }

InitControl == InitIn(ControlWorlds)

NextControl ==
    \/ Enable
    \/ Disable
    \/ AddComment
    \/ DeleteById
    \/ BeginCommentAt
    \/ OpenEditorFor
    \/ Show
    \/ Hide
    \/ ToggleVisibility
    \/ KeyDown

SpecControl == InitControl /\ [][NextControl]_vars

---------------------------------------------------------------------------
(* Hover tracking: the presentation state machine of a bubble              *)

\* most pins the hover model follows at a time (the handler treats every
\* bubble on its own)
MaxHoverPins == 1

\* most listeners of one kind the model counts on an element; all listeners
\* of a kind run at the same event and remove themselves, so a larger
\* number behaves as this one
MaxListeners == 2

Bump(n) == IF n < MaxListeners THEN n + 1 ELSE n

\* where the pointer is for one bubble: inside its bounding box, outside it
\* but within 256px of its centre, or farther away
Relations == {"inside", "near", "far"}

\* the transitions of bubble.style.transition that onEnd accepts, by
\* duration: min-width and max-width take 50ms, transform (with padding,
\* width and height) takes 420ms
Fast == "min-width"
Slow == "transform"
BubbleProps == {Fast, Slow}

\* seeded fault: a collapse is scheduled whether or not one is pending
farBranchAlways(p) == [p EXCEPT !.timers = @ + 1, !.mapped = TRUE]

\* hoverHandler, not near: schedule a collapse unless one is pending
farBranch(p) ==
    IF p.mapped THEN p
    ELSE [p EXCEPT !.timers = @ + 1, !.mapped = TRUE]

\* hoverHandler, near: the expanded sizing is applied (which starts the
\* growth transitions of a collapsed bubble and cancels a running shrink),
\* a pending collapse is cancelled, and a bubble that is not expanded
\* enters expanding with its text hidden and one more onEnd listener
nearBranch(p) ==
    LET sized == IF p.big THEN p
                 ELSE [p EXCEPT !.big = TRUE, !.grow = BubbleProps, !.shrink = {}]
        kept == IF sized.mapped
                THEN [sized EXCEPT !.timers = @ - 1, !.mapped = FALSE]
                ELSE sized
    IN  IF kept.state # "expanded"
        THEN [kept EXCEPT !.state = "expanding", !.text = FALSE, !.onEnds = Bump(@)]
        ELSE [kept EXCEPT !.text = TRUE]

\* hoverHandler, metadata line and action row: shown at once when the
\* pointer is inside; faded out otherwise, with a hide listener that sets
\* display 'none' at the next transitionend.  A change of opacity starts a
\* transition only on an element that is displayed
rowMove(r, inside) ==
    IF inside
    THEN [r EXCEPT !.display = TRUE, !.opacity = 1,
                   !.running = IF ~r.display THEN FALSE
                               ELSE IF r.opacity = 0 THEN TRUE ELSE @]
    ELSE [r EXCEPT !.opacity = 0, !.hides = Bump(@),
                   !.running = IF r.display /\ r.opacity = 1 THEN TRUE ELSE @]

\* hoverHandler, the body of the loop for one bubble
hoverBubble(p, rel) ==
    LET q == IF rel = "far" THEN farBranch(p) ELSE nearBranch(p)
    IN  [q EXCEPT !.meta = rowMove(@, rel = "inside"),
                  !.actions = rowMove(@, rel = "inside"),
                  !.handle = (rel = "inside"),
                  !.last = rel]

\* seeded fault: the timer's callback applies the collapsed sizing and
\* leaves dataset.state as it is
collapseSized(p) ==
    [p EXCEPT !.big = FALSE,
              !.shrink = IF p.big THEN BubbleProps ELSE @,
              !.grow = {},
              !.textHides = Bump(@),
              !.textRunning = IF p.text THEN TRUE ELSE @,
              !.timers = @ - 1,
              !.mapped = FALSE]

\* the collapse timer's callback
collapse(p) ==
    [p EXCEPT !.big = FALSE,
              !.shrink = IF p.big THEN BubbleProps ELSE @,
              !.grow = {},
              !.state = "collapsed",
              !.textHides = Bump(@),
              !.textRunning = IF p.text THEN TRUE ELSE @,
              !.timers = @ - 1,
              !.mapped = FALSE]

\* onEnd, all registered listeners, for a transitionend of the bubble with
\* an accepted property: an expanding bubble becomes expanded and its text
\* is displayed; every listener removes itself
onEnd(p) ==
    IF p.onEnds = 0 THEN p
    ELSE IF p.state = "expanding"
    THEN [p EXCEPT !.state = "expanded", !.text = TRUE, !.textRunning = TRUE,
                   !.onEnds = 0]
    ELSE [p EXCEPT !.onEnds = 0]

\* the hide listeners of the text, at a transitionend of the text
textHide(p) ==
    [p EXCEPT !.text = IF p.textHides > 0 /\ p.state = "collapsed" THEN FALSE ELSE @,
              !.textHides = 0, !.textRunning = FALSE]

\* the hide listeners of a row, at a transitionend of the row: each was
\* created by a move outside the bubble and holds that move's inside = false
rowHide(r) ==
    [r EXCEPT !.display = IF r.hides > 0 THEN FALSE ELSE @,
              !.hides = 0, !.running = FALSE]

hoverFrame ==
    <<pageVars, handlerVars, storeVars, isEnabled, storageKind, comments,
      overlay, pins, editor, drag, adapter, visibleVars, overlayShown>>

\* window dispatches mousemove to hoverHandler; rels[i] is where the
\* pointer is for the i-th bubble
MouseMoveWith(rels) ==
    /\ hoverHandler /\ overlay
    /\ hover' = [i \in DOMAIN hover |->
                    IF i \in DOMAIN rels THEN hoverBubble(hover[i], rels[i])
                    ELSE hover[i]]
    /\ UNCHANGED hoverFrame

MouseMove == \E rels \in [DOMAIN pins -> Relations] : MouseMoveWith(rels)

\* a collapse timer of the i-th bubble expires
CollapseTimer(i) ==
    /\ hover[i].timers > 0
    /\ hover' = [hover EXCEPT ![i] = collapse(@)]
    /\ UNCHANGED hoverFrame

CollapseTimers == \E i \in DOMAIN pins : CollapseTimer(i)

\* a transition of the i-th bubble on property prop completes; of two
\* transitions started together the 50ms one completes first
BubbleTransitionEnd ==
    \E i \in DOMAIN pins, prop \in BubbleProps :
        /\ prop \in hover[i].grow \cup hover[i].shrink
        /\ prop = Slow => Fast \notin hover[i].grow \cup hover[i].shrink
        /\ hover' = [hover EXCEPT
                        ![i] = [onEnd(@) EXCEPT !.grow = @ \ {prop},
                                                !.shrink = @ \ {prop}]]
        /\ UNCHANGED hoverFrame

\* the fade of the i-th bubble's text completes
TextTransitionEnd ==
    \E i \in DOMAIN pins :
        /\ hover[i].textRunning
        /\ hover' = [hover EXCEPT ![i] = textHide(@)]
        /\ UNCHANGED hoverFrame

\* the fade of the i-th bubble's metadata line or action row completes
RowTransitionEnd ==
    \E i \in DOMAIN pins :
        \/ /\ hover[i].meta.running
           /\ hover' = [hover EXCEPT ![i].meta = rowHide(@)]
           /\ UNCHANGED hoverFrame
        \/ /\ hover[i].actions.running
           /\ hover' = [hover EXCEPT ![i].actions = rowHide(@)]
           /\ UNCHANGED hoverFrame

\* the page adds a comment while the overlay shows fewer than MaxHoverPins
AddHoverPin == Len(comments) < MaxHoverPins /\ AddComment

NextHover ==
    \/ Enable
    \/ Disable
    \/ AddHoverPin
    \/ DeleteById
    \/ MouseMove
    \/ CollapseTimers
    \/ BubbleTransitionEnd
    \/ TextTransitionEnd
    \/ RowTransitionEnd

SpecHover == InitView /\ [][NextHover]_vars

---------------------------------------------------------------------------
(* Properties                                                              *)

\* storage.load() of the adapter kind over the stores mem and raw
SnapshotOf(kind, mem, raw) == StorageLoad(kind, mem, raw, browser, lsBackend)

\* storage.load() of the manager's adapter, now and after the step
Snapshot == SnapshotOf(storageKind, memStore, lsValue)
SnapshotNext == SnapshotOf(storageKind', memStore', lsValue')

\* storage.save(cs) is not swallowed: the memory adapter always stores, the
\* localStorage adapter when setItem accepts the serialised list
WriteAccepted(cs) ==
    \/ storageKind = "memory"
    \/ /\ browser /\ lsBackend = "ok"
       /\ FitsQuota(JsonStringify(cs), lsQuota)

\* the anchor of a comment that has one
AnchorOf(c) == CHOOSE v \in Get(c, "anchor") : TRUE

\* the comment has an anchor whose path names an element of the document
Resolvable(c, e) ==
    /\ Get(c, "anchor") # {}
    /\ e.browser
    /\ AnchorOf(c).path = "#box" /\ e.rect.present

\* the step redraws the pins: they change, and none of them is a bubble a
\* drag is moving
Redrawn == overlay' /\ ~drag'.live /\ pins' # pins

\* the pins ps are where the position computation puts the pins of the
\* comments cs on the page e
PinsAt(ps, cs, e) == ps = [i \in 1 .. Len(cs) |-> Bubble(cs[i], e)]

\* every pin is where the position computation puts it, now and after the
\* step
PinsCurrent == PinsAt(pins, comments, Env)
PinsCurrentNext == PinsAt(pins', comments', EnvNext)

\* the text is empty or consists of white space
Blank(t) == \A i \in 1 .. Len(t) : IsSpace(t[i])

\* the list cs without the comments whose id is id, order kept
RECURSIVE Without(_, _)
Without(cs, id) ==
    IF cs = <<>> THEN <<>>
    ELSE IF Head(cs).id = id THEN Without(Tail(cs), id)
    ELSE <<Head(cs)>> \o Without(Tail(cs), id)

\* C1: on an enabled manager none of whose saves was swallowed, what
\* storage.load() returns equals getAll() element for element, in every
\* state, so in particular when a mutating call returns
C1_SnapshotEqualsList ==
    (isEnabled /\ ~writeFailed) => SameList(Snapshot, comments)

\* an enabled manager on localStorage holds two comments, the first dropped
\* by a drag at (47, 62) and the second edited to "a", and the key holds
\* exactly that list
C1_Witness ==
    /\ isEnabled /\ ~writeFailed /\ storageKind = "localStorage"
    /\ Len(comments) = 2
    /\ comments[1].x = RInt(47) /\ comments[1].y = RInt(62)
    /\ comments[2].timestamp = 9 /\ comments[2].text = Str("a")
    /\ lsValue = ArrayItem(JsonStringify(comments))

\* C2: every redraw puts the pin of a comment whose anchor resolves at
\* (box.left + rx * box.width, box.top + ry * box.height), whatever its x, y
\* and the scroll offset are
C2_AnchoredPinFollowsBox ==
    [][Redrawn =>
        \A i \in DOMAIN pins' \cap DOMAIN comments' :
            Resolvable(comments'[i], EnvNext) =>
                /\ pins'[i].left =
                      RAdd(boxRect'.left, RMul(AnchorOf(comments'[i]).rx, boxRect'.width))
                /\ pins'[i].top =
                      RAdd(boxRect'.top, RMul(AnchorOf(comments'[i]).ry, boxRect'.height))]_vars

\* the box is {100, 200, 800, 100}, the page is scrolled by (5, 7), and the
\* pin of a comment anchored at rx = 1/4, ry = 1/2 whose x, y a drag has
\* rewritten is at (300, 250)
C2_Witness ==
    /\ overlay /\ ~drag.active
    /\ boxRect = Rect(100, 200, 800, 100) /\ scroll = Pt(5, 7)
    /\ \E i \in DOMAIN pins \cap DOMAIN comments :
          /\ Resolvable(comments[i], Env)
          /\ AnchorOf(comments[i]).rx = Quarter /\ AnchorOf(comments[i]).ry = Half
          /\ comments[i].x # RInt(200)
          /\ pins[i].left = RInt(300) /\ pins[i].top = RInt(250)

\* C3: every redraw creates one pin per comment, in list order, and puts the
\* pin of a comment without an anchor, or whose anchor does not resolve, at
\* (x - scrollX, y - scrollY)
C3_FallbackPin ==
    [][Redrawn =>
        /\ Len(pins') = Len(comments')
        /\ \A i \in DOMAIN pins' \cap DOMAIN comments' :
              /\ pins'[i].id = comments'[i].id
              /\ ~Resolvable(comments'[i], EnvNext) =>
                    /\ pins'[i].left = RSub(comments'[i].x, scroll'[1])
                    /\ pins'[i].top = RSub(comments'[i].y, scroll'[2])]_vars

\* on a page scrolled by (5, 7) from which #box is gone, two pins are drawn:
\* one for a comment whose selector is invalid, at (30 - 5, 40 - 7), and one
\* for a comment anchored to #box, at its page coordinates less the scroll
C3_Witness ==
    /\ overlay /\ ~drag.active
    /\ scroll = Pt(5, 7) /\ boxRect = NoRect
    /\ Len(pins) = 2 /\ Len(comments) = 2
    /\ \E i, j \in DOMAIN pins :
          /\ Get(comments[i], "anchor") # {} /\ AnchorOf(comments[i]).path = "##"
          /\ pins[i].left = RInt(25) /\ pins[i].top = RInt(33)
          /\ Get(comments[j], "anchor") # {} /\ AnchorOf(comments[j]).path = "#box"
          /\ pins[j].left = RSub(comments[j].x, RInt(5))
          /\ pins[j].top = RSub(comments[j].y, RInt(7))

C5_EditSubmit ==
    [][\A t \in Texts :
        EditSubmitText(t) =>
            IF Blank(t) \/ editor.id \notin IdsOf(comments)
            THEN UNCHANGED <<comments, lsValue, memStore>>
            ELSE /\ Len(comments') = Len(comments)
                 /\ \E i \in DOMAIN comments :
                       /\ comments[i].id = editor.id
                       /\ comments'[i].text = Trim(t)
                       /\ \A k \in AllKeys \ {"text"} :
                             Get(comments'[i], k) = Get(comments[i], k)
                       /\ \A j \in DOMAIN comments \ {i} : comments'[j] = comments[j]
                 /\ WriteAccepted(comments') => SameList(SnapshotNext, comments')
                 /\ overlay => PinsCurrentNext]_vars

\* the comment added with timestamp 9 and text "b " now reads "a", keeps its
\* timestamp, position and anchor, the editor is closed and the snapshot
\* equals the list
C5_Witness ==
    /\ editor.kind = "none" /\ overlay
    /\ SameList(Snapshot, comments)
    /\ \E i \in DOMAIN comments :
          /\ comments[i].text = Str("a") /\ comments[i].timestamp = 9
          /\ comments[i].x = RInt(200) /\ comments[i].y = RInt(250)
          /\ Get(comments[i], "nx") = {Half}
          /\ Get(comments[i], "anchor") = {[path |-> "#box", rx |-> Quarter, ry |-> Half]}

\* C6: deleteById(id) with an id no comment has leaves the list, the stored
\* snapshot and the pins as they are (nothing is saved, nothing redrawn);
\* with an id some comment has, the comments with that id are removed, the
\* others stay in their order, and the new list is saved
C6_Delete ==
    [][\A id \in Ids :
        deleteById(id) =>
            IF id \notin IdsOf(comments)
            THEN UNCHANGED <<comments, lsValue, memStore, pins>>
            ELSE /\ comments' = Without(comments, id)
                 /\ id \notin IdsOf(comments')
                 /\ WriteAccepted(comments') => SameList(SnapshotNext, comments')]_vars

\* the first of two comments has been deleted: the list holds the comment
\* that got the second id alone, one pin is drawn for it, and the snapshot
\* equals the list
C6_Witness ==
    /\ isEnabled /\ overlay
    /\ Len(comments) = 1 /\ comments[1].id = 2
    /\ Len(pins) = 1 /\ pins[1].id = 2
    /\ SameList(Snapshot, comments)

\* C7: a submit of the create or of the edit editor whose text is empty or
\* white space changes nothing at all: no comment is added or edited, nothing
\* is saved, and the editor stays open as it was, ready for a later submit
C7_BlankSubmit ==
    [][\A t \in Texts :
        (Blank(t) /\ (CreateSubmitText(t) \/ EditSubmitText(t))) => UNCHANGED vars]_vars

\* a create editor is open in the overlay over a list that already holds a
\* comment made with the create editor at (200, 250)
C7_Witness ==
    /\ editor.kind = "create" /\ editor.where = "overlay" /\ overlay
    /\ Len(comments) = 1
    /\ comments[1].text = Str("a")
    /\ Get(comments[1], "nx") = {Rat(200, 1000)}
    /\ Get(comments[1], "anchor") # {}

C9_ReloadSameList ==
    [][/\ (isEnabled /\ ~isEnabled' /\ storageKind = "localStorage")
          => SameList(SnapshotNext, comments)
       /\ (/\ ~isEnabled /\ isEnabled'
           /\ storageKind = "localStorage" /\ hostStorage = "localStorage")
          => SameList(comments', Snapshot)]_vars

\* C9, amended: the same, provided no save was swallowed since the manager
\* was last enabled
C9_ReloadSameListIfSaved ==
    [][/\ (isEnabled /\ ~isEnabled' /\ storageKind = "localStorage" /\ ~writeFailed)
          => SameList(SnapshotNext, comments)
       /\ (/\ ~isEnabled /\ isEnabled'
           /\ storageKind = "localStorage" /\ hostStorage = "localStorage")
          => SameList(comments', Snapshot)]_vars

\* an enabled manager on localStorage holds two comments read back from the
\* key (the parsed objects lack the keys that were undefined), one of them
\* dropped by a drag
C9_Witness ==
    /\ isEnabled /\ storageKind = "localStorage" /\ ~writeFailed
    /\ Len(comments) = 2
    /\ \A i \in DOMAIN comments : DOMAIN comments[i] # AllKeys
    /\ \E i \in DOMAIN comments : comments[i].x = RInt(47)
    /\ lsValue = ArrayItem(comments)

\* C10 as stated: for both adapters and every list, load() right after
\* save(l) returns l, also when an earlier list was saved before, and load()
\* right after clear() returns the empty list
C10_RoundTrip ==
    /\ (adapter.op = "load" /\ adapter.prev = "save")
          => SameList(adapter.result, adapter.arg)
    /\ (adapter.op = "load" /\ adapter.prev = "clear") => adapter.result = <<>>

\* C10, amended: the same, for the localStorage adapter provided localStorage
\* works and accepts the serialised list
C10_RoundTripIfAccepted ==
    /\ (adapter.op = "load" /\ adapter.prev = "save" /\ WriteAccepted(adapter.arg))
          => SameList(adapter.result, adapter.arg)
    /\ (adapter.op = "load" /\ adapter.prev = "clear") => adapter.result = <<>>

\* the localStorage adapter has loaded the two comments saved just before;
\* they are equal field by field to the saved ones though the parsed objects
\* are not the saved objects
C10_Witness ==
    /\ storageKind = "localStorage"
    /\ adapter.op = "load" /\ adapter.prev = "save"
    /\ Len(adapter.arg) = 2
    /\ SameList(adapter.result, adapter.arg)
    /\ adapter.result # adapter.arg

\* storage.save(cs) of the manager's adapter is swallowed
SaveFails(cs) == storageKind = "localStorage" /\ ~WriteAccepted(cs)

\* C11: load() of a localStorage adapter returns the empty list when there is
\* no localStorage, it throws, the key is missing or empty, or it holds
\* malformed JSON or a value that is not an array; a rejected save and a
\* rejected clear leave the key as it was; and the addComment, deleteById or
\* clear that ran into the rejection still changes the list in memory and
\* redraws the pins
C11_FailuresStayInside ==
    [][/\ (HostLoad /\ (~browser \/ lsBackend # "ok" \/ lsValue.kind # "array"))
            => adapter'.result = <<>>
       /\ (/\ ~isEnabled /\ isEnabled' /\ storageKind' = "localStorage"
           /\ lsValue.kind # "array") => comments' = <<>>
       /\ AddComment =>
            /\ Len(comments') = Len(comments) + 1
            /\ SubSeq(comments', 1, Len(comments)) = comments
            /\ overlay => PinsCurrentNext
            /\ SaveFails(comments') => lsValue' = lsValue
       /\ \A id \in IdsOf(comments) :
            deleteById(id) =>
                /\ comments' = Without(comments, id)
                /\ overlay => PinsCurrentNext
                /\ SaveFails(comments') => lsValue' = lsValue
       /\ Clear =>
            /\ comments' = <<>>
            /\ pins' = <<>>
            /\ (storageKind = "localStorage" /\ lsBackend # "ok") => lsValue' = lsValue]_vars

\* localStorage broke after the first of two comments was stored: the list
\* in memory has both, the key still holds the first alone, and load() of
\* an adapter of the page has returned the empty list
C11_Witness ==
    /\ isEnabled /\ storageKind = "localStorage" /\ lsBackend = "throws"
    /\ writeFailed /\ Len(comments) = 2 /\ Len(pins) = 2
    /\ lsValue = ArrayItem(JsonStringify(SubSeq(comments, 1, 1)))
    /\ adapter.op = "load" /\ adapter.result = <<>>

\* C12: when pointer-up ends a drag and a comment with the dragged pin's id
\* is in the list, the first such comment gets x, y = the dragged bubble's
\* final left, top plus the scroll offset and nx, ny = x, y divided by the
\* viewport width and height; its id, text, timestamp and anchor and all
\* other comments stay; the new list is saved and, where there is an
\* overlay, every pin is redrawn
C12_DragCommit ==
    [][(DragUp /\ FindIndex(comments, drag.id) > 0) =>
        LET i == FindIndex(comments, drag.id)
        IN  /\ Len(comments') = Len(comments)
            /\ comments'[i].x = RAdd(drag.left, scroll[1])
            /\ comments'[i].y = RAdd(drag.top, scroll[2])
            /\ Get(comments'[i], "nx") = {RDiv(comments'[i].x, viewport[1])}
            /\ Get(comments'[i], "ny") = {RDiv(comments'[i].y, viewport[2])}
            /\ \A k \in {"id", "text", "timestamp", "anchor"} :
                  Get(comments'[i], k) = Get(comments[i], k)
            /\ \A j \in DOMAIN comments \ {i} : comments'[j] = comments[j]
            /\ SameList(SnapshotNext, comments')
            /\ (overlay => PinsCurrentNext) /\ ~drag'.active]_vars

\* on a page scrolled by (5, 7) a pin was dropped at (47, 62): its comment
\* is at page position (52, 69), normalised (52/1000, 69/500), and still has
\* the anchor and the timestamp it was added with
C12_Witness ==
    /\ scroll = Pt(5, 7) /\ ~drag.active /\ overlay
    /\ \E i \in DOMAIN comments :
          /\ comments[i].x = RInt(52) /\ comments[i].y = RInt(69)
          /\ Get(comments[i], "nx") = {Rat(52, 1000)}
          /\ Get(comments[i], "ny") = {Rat(69, 500)}
          /\ comments[i].timestamp = 9
          /\ Get(comments[i], "anchor") = {[path |-> "#box", rx |-> Quarter, ry |-> Half]}

\* C13: the redraw that the commit of a drag triggers puts the pin of the
\* moved comment, if that comment had an anchor that resolves, at
\* (box.left + rx * box.width, box.top + ry * box.height), while the stored
\* x, y are the drop position plus the scroll offset
C13_AnchorOverridesDrop ==
    [][(/\ DragUp /\ overlay /\ FindIndex(comments, drag.id) > 0
        /\ Resolvable(comments[FindIndex(comments, drag.id)], Env)) =>
        LET i == FindIndex(comments, drag.id)
            an == AnchorOf(comments[i])
        IN  /\ pins'[i].left = RAdd(boxRect.left, RMul(an.rx, boxRect.width))
            /\ pins'[i].top = RAdd(boxRect.top, RMul(an.ry, boxRect.height))
            /\ comments'[i].x = RAdd(drag.left, scroll[1])
            /\ comments'[i].y = RAdd(drag.top, scroll[2])]_vars

\* a comment anchored to #box was dropped at (47, 62) on the unscrolled
\* page: it is stored at (47, 62) and its pin is drawn at (200, 250)
C13_Witness ==
    /\ scroll = Pt(0, 0) /\ boxRect = Rect(100, 200, 400, 100)
    /\ ~drag.active /\ overlay
    /\ \E i \in DOMAIN pins \cap DOMAIN comments :
          /\ Resolvable(comments[i], Env)
          /\ comments[i].x = RInt(47) /\ comments[i].y = RInt(62)
          /\ pins[i].left = RInt(200) /\ pins[i].top = RInt(250)
          /\ pins[i].left # comments[i].x /\ pins[i].top # comments[i].y

\* the row is displayed: not display 'none' and opaque
Displayed(r) == r.display /\ r.opacity = 1

\* C14: after every step each bubble has at most one collapse pending, and
\* it is the one collapseTimers holds; a pointer-move outside the radius
\* leaves exactly one pending and a pointer-move within it leaves none; so
\* a collapse callback runs only for a bubble whose latest pointer-move was
\* outside the radius
C14_OneCollapsePending ==
    [][/\ \A i \in DOMAIN pins' :
            /\ hover'[i].timers <= 1
            /\ hover'[i].mapped <=> hover'[i].timers = 1
       /\ \A rels \in [DOMAIN pins -> Relations] :
            MouseMoveWith(rels) =>
                \A i \in DOMAIN pins :
                    hover'[i].timers = (IF rels[i] = "far" THEN 1 ELSE 0)
       /\ \A i \in DOMAIN pins :
            CollapseTimer(i) => hover[i].last = "far"]_vars

\* a bubble that was expanding has been collapsed by its timer: the pointer
\* is outside the radius, no collapse is pending and the shrink is running
C14_Witness ==
    /\ Len(pins) >= 1
    /\ hover[1].state = "collapsed" /\ hover[1].last = "far"
    /\ hover[1].onEnds > 0 /\ hover[1].textHides > 0
    /\ hover[1].timers = 0 /\ ~hover[1].mapped
    /\ ~hover[1].big /\ hover[1].shrink # {}

\* C15 as stated: the text of a bubble is displayed only when no transition
\* of the growth that its entry into expanding started is still running
C15_TextAfterGrowth ==
    \A i \in DOMAIN pins : hover[i].text => hover[i].grow = {}

\* C16 as stated: once a pointer-move has been processed for a bubble, its
\* metadata line and its action row are displayed exactly if the pointer
\* was inside the bubble at the latest move
C16_RowsFollowContainment ==
    \A i \in DOMAIN pins :
        hover[i].last # "none" =>
            /\ Displayed(hover[i].meta) <=> hover[i].last = "inside"
            /\ Displayed(hover[i].actions) <=> hover[i].last = "inside"

\* C17 as stated: disable() on a disabled manager returns at once, so what
\* holds after every disable() is what holds whenever the manager is
\* disabled: the overlay is not in the page and no mousemove, scroll/resize
\* or keydown listener of the manager is registered
C17_DisabledLeavesNothing ==
    ~isEnabled => (~overlay /\ ~hoverHandler /\ ~viewportHandler /\ ~keyHandler)

\* C18 as stated: on an enabled manager in a browser one Shift+C outside an
\* editable element, delivered to the listeners on document and on window,
\* leaves isVisible() the negation of what it was
C18_ShiftCToggles ==
    [][\A ev \in KeyEvents :
        (KeyDownWith(ev) /\ isEnabled /\ IsShiftC(ev)) => visible' = ~visible]_vars

\* C19 as stated: show(), hide() and toggleVisibility() each dispatch one
\* visibility event, which carries the new value of isVisible(), and after
\* each of them and after a key press a mirror fed by the events equals
\* isVisible()
C19_Broadcast ==
    [][/\ (Show \/ Hide \/ ToggleVisibility)
            => (broadcast' = <<visible'>> /\ mirror' = visible')
       /\ KeyDown => mirror' = visible']_vars

\* C19, amended: the same where a window exists
C19_BroadcastInBrowser ==
    [][/\ ((Show \/ Hide \/ ToggleVisibility) /\ browser)
            => (broadcast' = <<visible'>> /\ mirror' = visible')
       /\ KeyDown => mirror' = visible']_vars

\* in a browser the overlay of an enabled manager is hidden, the last event
\* carried false, and the mirror holds false
C19_Witness ==
    /\ browser /\ isEnabled /\ overlay /\ ~overlayShown
    /\ ~visible /\ broadcast = <<FALSE>> /\ mirror = FALSE

\* C20 as stated: after every step no two comments of the list share an
\* id, and a submit of the edit editor or the end of a drag leaves the id of
\* every comment as it was
C20_UniqueImmutableIds ==
    [][/\ \A i, j \in DOMAIN comments' :
            i # j => comments'[i].id # comments'[j].id
       /\ (EditSubmit \/ DragUp) =>
            /\ Len(comments') = Len(comments)
            /\ \A i \in DOMAIN comments : comments'[i].id = comments[i].id]_vars

\* C21 as stated: every comment of the list has a text that is not empty
C21_TextNeverEmpty ==
    \A i \in DOMAIN comments : Len(comments[i].text) > 0

\* a coordinate of an anchor lies within [0,1]
InUnit(r) == RLe(RInt(0), r) /\ RLe(r, RInt(1))

\* C22 as stated: after every step every anchor of the list has rx and ry
\* within [0,1], and a submit of the edit editor or the end of a drag
\* leaves the anchor of every comment as it was
C22_AnchorFractions ==
    [][/\ \A i \in DOMAIN comments' : \A a \in comments'[i].anchor :
            InUnit(a.rx) /\ InUnit(a.ry)
       /\ (EditSubmit \/ DragUp) =>
            /\ Len(comments') = Len(comments)
            /\ \A i \in DOMAIN comments :
                  comments'[i].anchor = comments[i].anchor]_vars

\* the timestamps of a list, in order
Stamps(cs) == [i \in DOMAIN cs |-> cs[i].timestamp]

\* C23: a submit of the edit editor, a step of a drag, its end, a scroll, a
\* resize and a layout change leave the timestamp of every comment as it
\* was, and a deleteById leaves the timestamps of the comments it keeps
C23_TimestampFixed ==
    [][/\ (EditSubmit \/ HandleMouseDown \/ DragMove \/ DragUp
             \/ Scroll \/ Resize \/ LayoutChange)
            => Stamps(comments') = Stamps(comments)
       /\ DeleteById
            => \E id \in Ids : Stamps(comments') = Stamps(Without(comments, id))]_vars

\* the comment added with timestamp 9 at (200, 250) with text "b " has been
\* edited to "a" and dragged elsewhere, and its timestamp is still 9, which
\* no clock reading of the model is
C23_Witness ==
    /\ 9 \notin Clock
    /\ \E i \in DOMAIN comments :
          /\ comments[i].timestamp = 9
          /\ comments[i].text = Str("a")
          /\ comments[i].x # RInt(200)
          /\ drag = NoDrag

---------------------------------------------------------------------------
(* The order of the list: a page with room for three comments              *)

\* longest list of the pages on which the order of the list is followed
MaxOrdered == 3

OrderedIds == 1 .. MaxOrdered

AddOrdered == AddCommentFrom(AddArgs, OrderedIds)

DeleteOrdered == DeleteByIdIn(OrderedIds)

OpenEditorOrdered == OpenEditorForIn(OrderedIds)

NextOrder ==
    \/ Enable
    \/ AddOrdered
    \/ DeleteOrdered
    \/ OpenEditorOrdered
    \/ EditSubmit
    \/ HandleMouseDown
    \/ DragMove
    \/ DragUp

SpecOrder == InitView /\ [][NextOrder]_vars

\* C24: addComment leaves the old list as the prefix of the new one, which
\* is one longer; a submit of the edit editor and the end of a drag change
\* at most one comment, at its index, and leave its id; deleteById leaves
\* the comments with another id in the order they had
C24_InsertionOrder ==
    [][/\ AddOrdered =>
            /\ Len(comments') = Len(comments) + 1
            /\ SubSeq(comments', 1, Len(comments)) = comments
       /\ (EditSubmit \/ DragUp) =>
            /\ Len(comments') = Len(comments)
            /\ \E i \in DOMAIN comments \cup {0} :
                  \A j \in DOMAIN comments :
                      IF j = i THEN comments'[j].id = comments[j].id
                      ELSE comments'[j] = comments[j]
       /\ DeleteOrdered =>
            \E id \in OrderedIds : comments' = Without(comments, id)]_vars

\* three comments were added, the second was deleted and a fourth was added,
\* which took the freed id and stands last; the first has since been dragged
C24_Witness ==
    /\ Len(comments) = 3
    /\ comments[1].id = 1 /\ comments[2].id = 3 /\ comments[3].id = 2
    /\ comments[1].x = RInt(47)
    /\ drag = NoDrag

---------------------------------------------------------------------------
(* getAll(): the page reads the list and changes the array it was handed   *)

\* seeded fault: getAll hands out the manager's own array
getAllShared(cs) == [ref |-> "comments", items |-> cs]

\* CommentManager.getAll(): [...this.comments], a new array that holds the
\* comments of the list.  An array is known by what it is (ref) and by what
\* it holds (items)
getAll(cs) == [ref |-> "copy", items |-> cs]

\* a comment object of the page's own making
Stranger ==
    [id |-> 1, text |-> Str("z"), x |-> RInt(1), y |-> RInt(2), timestamp |-> 3,
     nx |-> {}, ny |-> {}, anchor |-> {}]

\* what the page does to an array: push(Stranger), pop(), reverse()
ArrayOps == {"push", "pop", "reverse"}

ArrayAfter(op, items) ==
    IF op = "push" THEN Append(items, Stranger)
    ELSE IF op = "pop"
    THEN (IF items = <<>> THEN items ELSE SubSeq(items, 1, Len(items) - 1))
    ELSE [i \in DOMAIN items |-> items[Len(items) + 1 - i]]

\* the page calls getAll() and keeps the array
GetAll ==
    /\ adapter' = [op |-> "getAll", prev |-> adapter.op, arg |-> <<>>,
                   result |-> getAll(comments)]
    /\ UNCHANGED <<managerVars, memStore, lsValue>>

\* the page changes the array it keeps; an array grows to MaxComments + 1
\* elements at most
ArrayChanged ==
    /\ adapter.op \in {"getAll", "changed"}
    /\ \E op \in ArrayOps :
          LET items == ArrayAfter(op, adapter.result.items)
          IN  /\ Len(items) <= MaxComments + 1
              /\ items # adapter.result.items
              /\ adapter' = [adapter EXCEPT !.op = "changed", !.prev = adapter.op,
                                            !.result.items = items]
              /\ comments' = IF adapter.result.ref = "comments" THEN items
                             ELSE comments
    /\ UNCHANGED <<pageVars, handlerVars, storeVars, isEnabled, storageKind, overlay,
                   pins, editor, drag, visibleVars, overlayShown, hover>>

NextCopy ==
    \/ Enable
    \/ AddComment
    \/ DeleteById
    \/ GetAll
    \/ ArrayChanged

SpecCopy == InitView /\ [][NextCopy]_vars

\* C25: a change the page makes to an array it got from getAll() leaves the
\* list, the stored snapshot and the pins as they were, and the next
\* getAll() hands out the list
C25_DefensiveCopy ==
    [][/\ ArrayChanged =>
            /\ comments' = comments
            /\ SnapshotNext = Snapshot
            /\ pins' = pins
       /\ GetAll => adapter'.result.items = comments]_vars

\* the page holds an array it reversed and extended while the list, its
\* snapshot and the pins still hold the two comments in their order
C25_Witness ==
    /\ adapter.op = "changed" /\ Len(adapter.result.items) = 3
    /\ Len(comments) = 2 /\ comments[1] # comments[2]
    /\ adapter.result.items[1] = comments[2]
    /\ adapter.result.items[2] = comments[1]
    /\ SameList(Snapshot, comments)
    /\ overlay /\ PinsCurrent

---------------------------------------------------------------------------
(* Element paths: getElementPath and resolveElementByPath on a document    *)

\* most elements a document of the model has below body
MaxNodes == 3

\* the elements of a document are body and the nodes 1 .. n below it, in
\* document order; what a query hands back when it finds no element, and
\* what stands for a SyntaxError it raises
Body == 0
Null == -1
Throws == -2

Tags == {"div", "span"}

\* el.id, a string of characters: none, 'a' and '1a'
ElementIds == {<<>>, <<"a">>, <<"1", "a">>}

\* el.classList: empty, or the classes c, d and e
ClassLists == {<<>>, << <<"c">>, <<"d">>, <<"e">> >>}

RECURSIVE AncestorsOrSelf(_, _)
AncestorsOrSelf(parent, i) ==
    IF i = Body THEN {Body} ELSE {i} \cup AncestorsOrSelf(parent, parent[i])

\* the trees of n nodes, each node numbered by its place in document order:
\* a node follows its parent, and it hangs below the node before it or below
\* one of that node's ancestors
Shapes(n) ==
    { p \in [1 .. n -> 0 .. n - 1] :
        \A i \in 1 .. n :
            /\ p[i] < i
            /\ i > 1 => p[i] \in AncestorsOrSelf(p, i - 1) }

Documents ==
    UNION { [parent : Shapes(n), tag : [1 .. n -> Tags], id : [1 .. n -> ElementIds],
             cls : [1 .. n -> ClassLists]] : n \in 1 .. MaxNodes }

Nodes(d) == DOMAIN d.parent

\* siblings.indexOf(node) + 1 among the children of the parent that have the
\* node's tagName
NthOfType(d, i) ==
    Cardinality({ j \in 1 .. i : d.parent[j] = d.parent[i] /\ d.tag[j] = d.tag[i] })

\* Array.from(classList).slice(0, 2)
FirstTwo(cl) == SubSeq(cl, 1, IF Len(cl) < 2 THEN Len(cl) ELSE 2)

\* a path is the list of the compound selectors that ' > ' joins; a
\* compound selector is #name, or a tag name with class names and an
\* :nth-of-type index
IdSelector(name) == [kind |-> "id", name |-> name, classes |-> <<>>, nth |-> 0]
TypeSelector(tag, classes, nth) ==
    [kind |-> "type", name |-> tag, classes |-> classes, nth |-> nth]

\* the ancestor walk of getElementPath from node up to body, root first
RECURSIVE Walk(_, _)
Walk(d, node) ==
    IF node = Body THEN <<>>
    ELSE Append(Walk(d, d.parent[node]),
                TypeSelector(d.tag[node], FirstTwo(d.cls[node]), NthOfType(d, node)))

\* getElementPath(el) on the document d
getElementPathIn(d, el) ==
    IF el # Body /\ d.id[el] # <<>> THEN <<IdSelector(d.id[el])>>
    ELSE Walk(d, el)

\* a CSS identifier does not start with a digit (the names of the model hold
\* letters and digits only)
Digits == {"0", "1", "2", "3", "4", "5", "6", "7", "8", "9"}
IsIdentifier(name) == name # <<>> /\ Head(name) \notin Digits

\* the selector parses: it is not empty and its id and class names are
\* identifiers
IsSelector(path) ==
    /\ path # <<>>
    /\ \A k \in DOMAIN path :
          /\ path[k].kind = "id" => IsIdentifier(path[k].name)
          /\ \A c \in DOMAIN path[k].classes : IsIdentifier(path[k].classes[c])

\* the node matches a compound selector
MatchesCompound(d, i, sel) ==
    IF sel.kind = "id" THEN d.id[i] = sel.name
    ELSE /\ d.tag[i] = sel.name
         /\ \A c \in DOMAIN sel.classes :
               \E k \in DOMAIN d.cls[i] : d.cls[i][k] = sel.classes[c]
         /\ sel.nth = NthOfType(d, i)

\* the node matches the path: its last compound selector, and each one
\* before it on the parent of the node that matched the one after; the
\* first may match at any depth
RECURSIVE Matches(_, _, _)
Matches(d, i, path) ==
    /\ i # Body
    /\ MatchesCompound(d, i, path[Len(path)])
    /\ Len(path) > 1 => Matches(d, d.parent[i], SubSeq(path, 1, Len(path) - 1))

\* document.querySelector(path): the first match in document order
querySelectorIn(d, path) ==
    IF ~IsSelector(path) THEN Throws
    ELSE LET found == { i \in Nodes(d) : Matches(d, i, path) }
         IN  IF found = {} THEN Null
             ELSE CHOOSE i \in found : \A j \in found : i <= j

\* seeded fault: the SyntaxError of querySelector is not caught
resolveElementByPathUncaught(d, path, b) ==
    IF ~b \/ path = <<>> THEN Null ELSE querySelectorIn(d, path)

\* resolveElementByPath(path) on the document d
resolveElementByPathIn(d, path, b) ==
    IF ~b \/ path = <<>> THEN Null
    ELSE IF querySelectorIn(d, path) = Throws THEN Null
    ELSE querySelectorIn(d, path)

\* paths a caller holds that no element of the document gave: the empty
\* path, '#1a', '#a', 'span:nth-of-type(1)', 'span:nth-of-type(2)' and
\* 'div:nth-of-type(1) > span:nth-of-type(1)'
StrayPaths ==
    { <<>>,
      <<IdSelector(<<"1", "a">>)>>,
      <<IdSelector(<<"a">>)>>,
      <<TypeSelector("span", <<>>, 1)>>,
      <<TypeSelector("span", <<>>, 2)>>,
      <<TypeSelector("div", <<>>, 1), TypeSelector("span", <<>>, 1)>> }

\* a caller looks at one element of one document
InitPath ==
    /\ InitPage({MemoryWorld})
    /\ \E d \in Documents : \E el \in Nodes(d) \cup {Body} :
          probe = [stage |-> "element", doc |-> d, el |-> el, given |-> FALSE,
                   path |-> <<>>, found |-> Null]

probeFrame ==
    <<browser, lsBackend, lsQuota, hostStorage, scroll, viewport, boxRect,
      handlerVars, storeVars, isEnabled, storageKind, comments, overlay, pins,
      editor, drag, adapter, visibleVars, overlayShown, hover>>

\* the caller serializes the element
Serialize ==
    /\ probe.stage = "element"
    /\ probe' = [probe EXCEPT !.stage = "path",
                              !.path = getElementPathIn(probe.doc, probe.el)]
    /\ UNCHANGED probeFrame

\* the caller takes a path from elsewhere (a stored comment, its own code)
PathGiven ==
    /\ probe.stage = "element"
    /\ \E path \in StrayPaths :
          probe' = [probe EXCEPT !.stage = "path", !.given = TRUE, !.path = path]
    /\ UNCHANGED probeFrame

\* the caller resolves the path
Resolve ==
    /\ probe.stage = "path"
    /\ probe' = [probe EXCEPT
                    !.stage = "resolved",
                    !.found = resolveElementByPathIn(probe.doc, probe.path, browser)]
    /\ UNCHANGED probeFrame

NextPath ==
    \/ Serialize
    \/ PathGiven
    \/ Resolve

SpecPath == InitPath /\ [][NextPath]_vars

\* the element has no id, or an id no other element of the document has
OwnId(d, el) ==
    d.id[el] = <<>> \/ \A j \in Nodes(d) \ {el} : d.id[j] # d.id[el]

\* C26 as stated: the path of an element other than body, with an id of its
\* own or with none, resolves to that element
C26_PathRoundTrip ==
    (/\ probe.stage = "resolved" /\ ~probe.given
     /\ probe.el # Body /\ OwnId(probe.doc, probe.el))
        => probe.found = probe.el

\* first of a set of nodes in document order
First(found) == CHOOSE i \in found : \A j \in found : i <= j

\* C27: resolving a path raises no error; the empty path, a path that is no
\* selector and a path no element matches give not-found, and every other
\* path gives the first element in document order that matches it
C27_ResolveNeverThrows ==
    probe.stage = "resolved" =>
        LET d == probe.doc
            found == { i \in Nodes(d) : Matches(d, i, probe.path) }
        IN  /\ probe.found # Throws
            /\ probe.found =
                  IF probe.path = <<>> \/ ~IsSelector(probe.path) \/ found = {}
                  THEN Null ELSE First(found)

\* the path 'span:nth-of-type(1)' was resolved on a document whose second
\* and third element match it, and gave the second
C27_Witness ==
    /\ probe.stage = "resolved" /\ probe.given
    /\ probe.path = <<TypeSelector("span", <<>>, 1)>>
    /\ 3 \in Nodes(probe.doc)
    /\ ~Matches(probe.doc, 1, probe.path)
    /\ Matches(probe.doc, 2, probe.path) /\ Matches(probe.doc, 3, probe.path)
    /\ probe.found = 2

\* C28 as stated, for the pin node a drag holds: the node that was the pin
\* of its comment is still that pin after every step that leaves the overlay
\* in the page and the comment in the list, redraws included
C28_PinNodesKept ==
    [][(/\ drag.active /\ drag.live /\ overlay
        /\ drag'.active /\ overlay'
        /\ FindIndex(comments', drag.id) > 0)
          => drag'.live]_vars

---------------------------------------------------------------------------
(* Disabling and enabling again                                            *)

NextReset ==
    \/ Enable
    \/ Disable
    \/ AddComment
    \/ GetAll

SpecReset == InitControl /\ [][NextReset]_vars

\* C29: enable() on a disabled manager that selects memory storage leaves
\* the list empty and the overlay, where there is one, without pins
C29_ReenableResets ==
    [][(~isEnabled /\ Enable /\ storageKind' = "memory")
          => (comments' = <<>> /\ pins' = <<>> /\ (browser => overlay'))]_vars

\* the page holds the two comments an earlier getAll() handed it; the
\* manager is enabled on memory storage with an empty list, an empty
\* snapshot and an overlay without pins
C29_Witness ==
    /\ adapter.op = "getAll" /\ Len(adapter.result.items) = 2
    /\ browser /\ isEnabled /\ storageKind = "memory"
    /\ comments = <<>> /\ memStore = <<>> /\ overlay /\ pins = <<>>

---------------------------------------------------------------------------
(* The storage enable() selects                                            *)

\* options.storage: not given, 'memory' or 'localStorage'
StorageOptions == {"undefined", "memory", "localStorage"}

\* every page: without a DOM, or a browser whose localStorage works, is
\* absent, throws on every access or stores nothing
SelectWorlds ==
    { [browser |-> FALSE, backend |-> "absent", storage |-> s, quota |-> 0] :
        s \in StorageOptions }
    \cup { [browser |-> TRUE, backend |-> b, storage |-> s,
            quota |-> IF b = "ok" THEN MaxComments ELSE 0] :
             b \in {"ok", "absent", "throws", "inert"}, s \in StorageOptions }

InitSelect == InitIn(SelectWorlds)

NextSelect ==
    \/ Enable
    \/ Disable
    \/ AddComment
    \/ StorageBreaks

SpecSelect == InitSelect /\ [][NextSelect]_vars

\* C30: every enable() returns with the manager enabled, on localStorage
\* exactly if options.storage is 'localStorage' and window.localStorage
\* exists and hands back what the probe wrote, and on memory storage
\* otherwise
C30_StorageSelection ==
    [][Enable =>
        /\ isEnabled'
        /\ storageKind' \in {"memory", "localStorage"}
        /\ storageKind' = "localStorage"
              <=> (hostStorage = "localStorage" /\ browser /\ lsBackend = "ok")]_vars

\* localStorage was requested and selected, it then began to throw, and
\* the next enable() fell back to memory storage; the key still holds the
\* comment saved before
C30_Witness ==
    /\ hostStorage = "localStorage" /\ browser /\ lsBackend = "throws"
    /\ isEnabled /\ storageKind = "memory" /\ comments = <<>>
    /\ lsValue.kind = "array" /\ Len(lsValue.arr) = 1

---------------------------------------------------------------------------
(* export(): the list as Markdown or as JSON *)

\* longest list the export is run on by itself, and the longest text in it
MaxExported == 2
MaxTextLen == 2

\* what a call hands back: a value, or an exception
Returned(v) == [threw |-> FALSE, value |-> v]
RangeError == [threw |-> TRUE, value |-> <<>>]

\* two characters a string of the model cannot hold, by name
Backtick == "backtick"
EmDash == "emdash"

\* the characters the pattern /[\\`*_{}\[\]()#+\-.!|]/g of escapeMarkdown
\* matches
MarkdownSpecials ==
    {"\\", Backtick, "*", "_", "{", "}", "[", "]", "(", ")", "#", "+", "-", ".", "!", "|"}

\* seeded fault: the pattern without its g flag, only the first match is
\* replaced
RECURSIVE escapeMarkdownOnce(_)
escapeMarkdownOnce(input) ==
    IF input = <<>> THEN <<>>
    ELSE IF Head(input) \in MarkdownSpecials THEN <<"\\">> \o input
    ELSE <<Head(input)>> \o escapeMarkdownOnce(Tail(input))

\* escapeMarkdown(input): input.replace(pattern, (m) => `\\${m}`)
RECURSIVE escapeMarkdown(_)
escapeMarkdown(input) ==
    IF input = <<>> THEN <<>>
    ELSE (IF Head(input) \in MarkdownSpecials THEN <<"\\", Head(input)>>
          ELSE <<Head(input)>>) \o escapeMarkdown(Tail(input))

\* `${c.x}`: the digits of a number, kept as one token
NumberText(r) == "number" \o ToString(r)

\* a timestamp is {ms}, a time value, or {} for a number that is no time
\* (NaN, or a field a stored record lacks); new Date(ts).toISOString() throws
\* a RangeError on the latter
IsTime(ts) == ts # {}
toISOString(ts) == "iso" \o ToString(CHOOSE ms \in ts : TRUE)

\* '# Comments'
Heading == <<"#", " ", "C", "o", "m", "m", "e", "n", "t", "s">>

\* `- (${c.x}, ${c.y}) ` and ` — ${when}`
BulletHead(c) == <<"-", " ", "(", NumberText(c.x), ",", " ", NumberText(c.y), ")", " ">>
BulletTail(c) == <<" ", EmDash, " ", toISOString(c.timestamp)>>

\* `- (${c.x}, ${c.y}) ${this.escapeMarkdown(c.text)} — ${when}`
Bullet(c) == BulletHead(c) \o escapeMarkdown(c.text) \o BulletTail(c)

\* lines.join('\n')
RECURSIVE Join(_)
Join(lines) ==
    IF lines = <<>> THEN <<>>
    ELSE IF Len(lines) = 1 THEN lines[1]
    ELSE lines[1] \o <<"\n">> \o Join(Tail(lines))

\* toMarkdown(comments)
toMarkdown(cs) ==
    IF Len(cs) = 0 THEN Returned(<<>>)
    ELSE IF \E i \in DOMAIN cs : ~IsTime(cs[i].timestamp) THEN RangeError
    ELSE Returned(Join(<<Heading, <<>>>> \o [i \in DOMAIN cs |-> Bullet(cs[i])]))

\* seeded fault: the JSON export hands out the comments as they are, anchor
\* and normalized fields included
toJsonWhole(cs) == cs

\* toJson(comments)
toJson(cs) ==
    [i \in DOMAIN cs |->
        [id |-> cs[i].id, text |-> cs[i].text, x |-> cs[i].x, y |-> cs[i].y,
         timestamp |-> cs[i].timestamp]]

\* options.exportFormat
Formats == {"markdown", "json"}

\* export() of a manager whose exportAs is format
export(format, cs) ==
    IF format = "markdown" THEN toMarkdown(cs) ELSE Returned(toJson(cs))

\* the texts of the exported comments: up to MaxTextLen characters, plain,
\* special and line breaks
ExportChars == {"a", "*", "_", "[", "]", "\\", "\n"}
ExportTexts == UNION { [1 .. n -> ExportChars] : n \in 0 .. MaxTextLen }

\* the comments of an exported list: addComment takes any number as the
\* timestamp, and load() hands back the stored records as they are
ExportComments ==
    [id : {1}, text : ExportTexts, x : {RInt(10)}, y : {RInt(20)},
     timestamp : {{7}, {}}]
ExportLists == UNION { [1 .. n -> ExportComments] : n \in 0 .. MaxExported }

\* a manager that holds one of the lists, enabled with one of the formats
InitExport ==
    /\ InitPage({MemoryWorld})
    /\ \E cs \in ExportLists : \E f \in Formats :
          probe = [stage |-> "list", format |-> f, list |-> cs,
                   out |-> Returned(<<>>)]

\* the page calls export()
Export ==
    /\ probe.stage = "list"
    /\ probe' = [probe EXCEPT !.stage = "exported",
                              !.out = export(probe.format, probe.list)]
    /\ UNCHANGED probeFrame

NextExport == Export

SpecExport == InitExport /\ [][NextExport]_vars

\* the lines of a string
RECURSIVE SplitLines(_, _)
SplitLines(s, line) ==
    IF s = <<>> THEN <<line>>
    ELSE IF Head(s) = "\n" THEN <<line>> \o SplitLines(Tail(s), <<>>)
    ELSE SplitLines(Tail(s), Append(line, Head(s)))

StartsWith(s, p) == Len(s) >= Len(p) /\ SubSeq(s, 1, Len(p)) = p
EndsWith(s, p) == Len(s) >= Len(p) /\ SubSeq(s, Len(s) - Len(p) + 1, Len(s)) = p

\* a line that opens a bullet
IsBullet(line) == StartsWith(line, <<"-", " ">>)

\* the lines (by number) that open a bullet, in order
BulletLines(lines) == SelectSeq([i \in DOMAIN lines |-> i], LAMBDA i : IsBullet(lines[i]))

\* the k-th list item: from its bullet line up to the next bullet line
Item(lines, k) ==
    LET at == BulletLines(lines)
        last == IF k < Len(at) THEN at[k + 1] - 1 ELSE Len(lines)
    IN  Join(SubSeq(lines, at[k], last))

\* every special character of s stands behind a backslash of its own
RECURSIVE AllEscaped(_)
AllEscaped(s) ==
    IF s = <<>> THEN TRUE
    ELSE IF Head(s) = "\\" THEN Len(s) >= 2 /\ AllEscaped(Tail(Tail(s)))
    ELSE Head(s) \notin MarkdownSpecials /\ AllEscaped(Tail(s))

\* what a Markdown reader takes an escaped text for
RECURSIVE Unescaped(_)
Unescaped(s) ==
    IF s = <<>> THEN <<>>
    ELSE IF Head(s) = "\\" /\ Len(s) >= 2
    THEN <<s[2]>> \o Unescaped(Tail(Tail(s)))
    ELSE <<Head(s)>> \o Unescaped(Tail(s))

\* the text between the head and the tail of the item of comment c
ItemText(item, c) ==
    SubSeq(item, Len(BulletHead(c)) + 1, Len(item) - Len(BulletTail(c)))

\* s is the Markdown of the list cs
IsMarkdownOf(s, cs) ==
    IF cs = <<>> THEN s = <<>>
    ELSE LET lines == SplitLines(s, <<>>)
         IN  /\ lines[1] = Heading
             /\ Len(BulletLines(lines)) = Len(cs)
             /\ \A k \in DOMAIN cs :
                   LET item == Item(lines, k)
                   IN  /\ StartsWith(item, BulletHead(cs[k]))
                       /\ EndsWith(item, BulletTail(cs[k]))
                       /\ AllEscaped(ItemText(item, cs[k]))
                       /\ Unescaped(ItemText(item, cs[k])) = cs[k].text

\* C32: the Markdown export of a list of n comments is the empty string
\* when n = 0 and otherwise the heading '# Comments' followed by exactly n
\* bullets in list order, one per comment, every special character of the
\* text behind a backslash
C32_MarkdownExport ==
    (probe.stage = "exported" /\ probe.format = "markdown")
        => /\ ~probe.out.threw
           /\ IsMarkdownOf(probe.out.value, probe.list)

\* the same for the lists whose timestamps are time values
C32_MarkdownOfDated ==
    (/\ probe.stage = "exported"
     /\ probe.format = "markdown"
     /\ \A i \in DOMAIN probe.list : IsTime(probe.list[i].timestamp))
        => /\ ~probe.out.threw
           /\ IsMarkdownOf(probe.out.value, probe.list)

---------------------------------------------------------------------------
(* Without a DOM: the manager as a store of comments *)

\* where there is no window and no document, whatever storage is asked for
HeadlessWorlds ==
    { [browser |-> FALSE, backend |-> "absent", storage |-> "memory", quota |-> 0],
      [browser |-> FALSE, backend |-> "absent", storage |-> "localStorage", quota |-> 0] }

InitHeadless == InitIn(HeadlessWorlds)

\* the list as the export reads it: every timestamp of the manager's list is
\* a time value
Dated(cs) == [i \in DOMAIN cs |-> [cs[i] EXCEPT !.timestamp = {cs[i].timestamp}]]

\* the page calls export() on a manager whose exportAs is f, and keeps what
\* it gets
ExportList ==
    /\ \E f \in Formats :
          adapter' = [op |-> "export", prev |-> adapter.op, arg |-> <<>>,
                      result |-> [format |-> f, out |-> export(f, Dated(comments))]]
    /\ UNCHANGED <<managerVars, memStore, lsValue>>

NextHeadless ==
    \/ Enable
    \/ Disable
    \/ AddComment
    \/ DeleteById
    \/ GetAll
    \/ ExportList
    \/ BeginCommentAt
    \/ OpenEditorFor
    \/ Show
    \/ Hide

SpecHeadless == InitHeadless /\ [][NextHeadless]_vars

\* v is the JSON export of the list cs
IsJsonOf(v, cs) ==
    /\ Len(v) = Len(cs)
    /\ \A i \in DOMAIN cs :
          /\ DOMAIN v[i] = {"id", "text", "x", "y", "timestamp"}
          /\ v[i].id = cs[i].id
          /\ v[i].text = cs[i].text
          /\ v[i].x = cs[i].x
          /\ v[i].y = cs[i].y
          /\ v[i].timestamp = {cs[i].timestamp}

\* C31: without a DOM enable() succeeds with memory storage and an empty
\* list; add, delete, getAll and export work on the in-memory list; and
\* beginCommentAt, openEditorFor, show and hide leave the list alone and
\* build no overlay
C31_HeadlessStore ==
    [][~browser =>
        /\ Enable => (isEnabled' /\ storageKind' = "memory" /\ comments' = <<>>)
        /\ AddComment =>
              /\ Len(comments') = Len(comments) + 1
              /\ SubSeq(comments', 1, Len(comments)) = comments
              /\ memStore' = comments'
        /\ DeleteById =>
              /\ \E id \in Ids :
                    comments' = SelectSeq(comments, LAMBDA c : c.id # id)
              /\ memStore' = comments'
        /\ GetAll => (adapter'.result.items = comments /\ comments' = comments)
        /\ ExportList =>
              /\ comments' = comments
              /\ ~adapter'.result.out.threw
              /\ adapter'.result.format = "json"
                    => IsJsonOf(adapter'.result.out.value, comments)
              /\ adapter'.result.format = "markdown"
                    => IsMarkdownOf(adapter'.result.out.value, Dated(comments))
        /\ (BeginCommentAt \/ OpenEditorFor \/ Show \/ Hide) =>
              (comments' = comments /\ memStore' = memStore /\ ~overlay'
               /\ editor' = editor)
        /\ ~overlay' /\ lsValue' = lsValue
    ]_vars

\* without a DOM the page has got the Markdown of a list of two comments
\* from an enabled manager that was told to hide
C31_Witness ==
    /\ ~browser
    /\ isEnabled
    /\ ~visible
    /\ Len(comments) = 2
    /\ adapter.op = "export"
    /\ adapter.result.format = "markdown"
    /\ adapter.result.out = toMarkdown(Dated(comments))

---------------------------------------------------------------------------
(* The overlay's display follows isVisible() *)

\* C40: whenever the overlay exists it is displayed exactly when isVisible()
\* is true; enable() and disable() leave the flag alone, so a hide() issued
\* while there is no overlay shows on the overlay the next enable() creates
C40_DisplayFollowsVisible ==
    [][/\ overlay' => (overlayShown' <=> visible')
       /\ (Enable \/ Disable) => visible' = visible
       /\ Hide => ~visible'
       /\ Show => visible'
       /\ ToggleVisibility => (visible' <=> ~visible)
       /\ (Enable /\ browser) => (overlay' /\ (overlayShown' <=> visible))
    ]_vars

\* an enabled manager whose overlay exists and is not displayed, hide() being
\* the last handler that sent an event
C40_Witness ==
    /\ isEnabled
    /\ overlay
    /\ ~overlayShown
    /\ ~visible
    /\ broadcast = <<FALSE>>
    /\ mirror = FALSE

---------------------------------------------------------------------------
(* disable() and an open editor *)

\* the overlay ov holds the editor surface ed
EditorShown(ov, ed) == ov /\ ed.kind # "none" /\ ed.where = "overlay"

\* C39: disable() leaves no editor open: an editor surface comes into the
\* overlay only through beginCommentAt or openEditorFor, so after disable()
\* and a later enable() the overlay holds none until one of them is called
C39_DisableClosesEditor ==
    [][(EditorShown(overlay', editor') /\ ~EditorShown(overlay, editor))
          => (BeginCommentAt \/ OpenEditorFor)]_vars

---------------------------------------------------------------------------
(* One pin per comment *)

\* C38: whenever the overlay exists (between two handlers), it holds exactly
\* one pin per comment of the list, in list order, each carrying the id of
\* its comment
C38_OnePinPerComment ==
    overlay => /\ Len(pins) = Len(comments)
               /\ \A i \in DOMAIN comments : pins[i].id = comments[i].id

\* the same for the overlay of an enabled manager
C38_OnePinWhileEnabled ==
    (isEnabled /\ overlay) => /\ Len(pins) = Len(comments)
                              /\ \A i \in DOMAIN comments : pins[i].id = comments[i].id

---------------------------------------------------------------------------
(* Two renders in succession *)

\* what renderOverlay() makes of the overlay as it is
RenderedOnce == renderOverlay(overlay, pins, comments, editor, drag, Env)

\* and what a second renderOverlay() right after it makes of that
RenderedTwice ==
    renderOverlay(overlay, RenderedOnce.pins, comments, RenderedOnce.editor,
                  RenderedOnce.drag, Env)

---------------------------------------------------------------------------
(* A redraw during a drag *)

\* the pin the overlay ps shows for the dragged comment is where the pointer,
\* less the grab offset, is: the drag began on the d.idx-th pin
AtPointer(ps, d) ==
    (d.idx \in DOMAIN ps /\ ps[d.idx].id = d.id)
        => \E p \in Pointers :
              /\ ps[d.idx].left = RSub(p[1], d.offX)
              /\ ps[d.idx].top = RSub(p[2], d.offY)

\* C35: while a drag is in progress, after each pointer-move the pin the
\* overlay shows for the dragged comment is at the pointer position minus
\* the grab offset, a redraw during the drag notwithstanding
C35_PinFollowsPointer == [][DragMove => AtPointer(pins', drag)]_vars

\* the same for a drag during which the overlay was not redrawn
C35_PinFollowsPointerUndisturbed ==
    [][(DragMove /\ drag.live) => AtPointer(pins', drag)]_vars

---------------------------------------------------------------------------
(* The drag listeners on window *)

\* C36: the pointer-up that ends a drag removes that drag's pointer-move and
\* pointer-up listeners, and whenever no drag is in progress no drag listener
\* is registered on window, whether or not the pin was redrawn, its comment
\* deleted or the manager disabled during the drag
C36_DragListenersRemoved ==
    [][/\ DragUp => (~drag'.active /\ ~drag'.onMouseMove /\ ~drag'.onMouseUp)
       /\ ~drag'.active => (~drag'.onMouseMove /\ ~drag'.onMouseUp)
       /\ drag'.active => (drag'.onMouseMove /\ drag'.onMouseUp)
    ]_vars

\* a drag whose pointer has moved and whose pointer-up is still to come, on a
\* manager that was disabled during the drag and whose dragged comment was
\* deleted
C36_Witness ==
    /\ drag.active
    /\ drag.onMouseMove /\ drag.onMouseUp
    /\ PointerMoved
    /\ ~drag.live
    /\ ~isEnabled /\ ~overlay
    /\ comments # <<>>
    /\ FindIndex(comments, drag.id) = 0

---------------------------------------------------------------------------
(* The debug flag and the console *)

\* options.debug of enable(options): absent, true or false
DebugOptions == {{}, {TRUE}, {FALSE}}

\* a freshly constructed manager: `private debug: boolean = true`.  The
\* record keeps the flag, whether setDebug or an options.debug has ever set
\* it, the latest call of enable or setDebug with its argument, and whether
\* that call wrote to the console
NewManagerDebug ==
    [stage |-> "debug", debug |-> TRUE, changed |-> FALSE, call |-> "none",
     option |-> {}, logged |-> FALSE]

InitDebug == InitPage(ControlWorlds) /\ probe = NewManagerDebug

\* setDebug(enabled): this.debug = enabled; debugLog(...)
setDebug(p, enabled) == [p EXCEPT !.debug = enabled, !.logged = enabled]

\* the host page calls setCommentsDebug(enabled)
SetDebug ==
    /\ \E enabled \in BOOLEAN :
          probe' = [setDebug(probe, enabled) EXCEPT
                       !.changed = TRUE, !.call = "setDebug", !.option = {enabled}]
    /\ UNCHANGED probeFrame

\* enable(options): setDebug(options.debug ?? this.debug), debugLog(...) and
\* the rest of the handler
EnableLogged ==
    /\ \E opt \in DebugOptions :
          LET enabled == IF opt = {} THEN probe.debug ELSE CHOOSE b \in opt : TRUE
          IN  probe' = [setDebug(probe, enabled) EXCEPT
                           !.changed = probe.changed \/ opt # {},
                           !.call = "enable", !.option = opt]
    /\ EnableQuiet(hostStorage)

NextDebug ==
    \/ EnableLogged
    \/ SetDebug
    \/ Disable
    \/ AddComment
    \/ DeleteById

SpecDebug == InitDebug /\ [][NextDebug]_vars

\* C34: after enable() without a debug option on a manager whose debug
\* setting was never changed, diagnostic logging is off
C34_DebugOffByDefault ==
    (probe.call = "enable" /\ probe.option = {} /\ ~probe.changed)
        => (~probe.debug /\ ~probe.logged)

\* the flag gates the console output and nothing else: a call writes to the
\* console exactly when the flag is set, and setDebug changes nothing but the
\* flag
C34_DebugGatesLoggingOnly ==
    [][/\ probe'.call # "none" => (probe'.logged <=> probe'.debug)
       /\ SetDebug => UNCHANGED probeFrame
       /\ EnableLogged => EnableQuiet(hostStorage)
    ]_vars

---------------------------------------------------------------------------
(* A pin left alone collapses *)

\* window.setTimeout(..., 220): a timer that is pending expires in the end,
\* unless clearTimeout cancels it or its bubble is replaced
TimersFire ==
    \A i \in 1 .. MaxHoverPins : WF_vars(i \in DOMAIN hover /\ CollapseTimer(i))

SpecHoverFair == InitView /\ [][NextHover]_vars /\ TimersFire

\* the latest mousemove the handler processed was outside the 256px radius
\* of the i-th bubble, which is expanded or expanding
LeftOpen(i) ==
    /\ i \in DOMAIN hover
    /\ hover[i].last = "far"
    /\ hover[i].state \in {"expanded", "expanding"}

\* the i-th bubble is collapsed, or a mousemove within the radius has come,
\* or the overlay holds no such bubble any more
CollapsedOrBack(i) ==
    i \in DOMAIN hover => (hover[i].state = "collapsed" \/ hover[i].last # "far")

\* the i-th bubble leaves collapsed in this step
Reopens(i) ==
    /\ i \in DOMAIN hover /\ i \in DOMAIN hover'
    /\ hover[i].state = "collapsed"
    /\ hover'[i].state # "collapsed"

\* C37: once a mousemove outside the radius of an expanded or expanding pin
\* has been processed, and as long as no later mousemove is within the
\* radius, the pin reaches collapsed (timers fire), and a collapsed pin stays
\* collapsed until a mousemove within the radius is processed
C37_CollapsesAndStays ==
    /\ \A i \in 1 .. MaxHoverPins : LeftOpen(i) ~> CollapsedOrBack(i)
    /\ [][\A i \in 1 .. MaxHoverPins :
             Reopens(i) => (MouseMove /\ hover'[i].last \in {"near", "inside"})]_vars

\* a bubble that was expanded, was left by the pointer and has collapsed:
\* its timer has run, its shrink is under way, no collapse is pending
C37_Witness ==
    /\ 1 \in DOMAIN hover
    /\ hover[1].state = "collapsed"
    /\ hover[1].last = "far"
    /\ hover[1].shrink # {}
    /\ hover[1].timers = 0

====
